---------------------------- MODULE Spec2Model ----------------------------
(***************************************************************************)
(* A model of GetTotal.py.  It holds nine specifications over one state:   *)
(*                                                                         *)
(*   SpecScan      CodeAnalyzer.analyze_file, one line at a time;          *)
(*   SpecClassify  CodeAnalyzer.get_language_from_extension on the rule    *)
(*                 tables the application can hold;                        *)
(*   SpecCollect   ModernCodeCounterApp.collect_files, one directory of    *)
(*                 os.walk at a time;                                      *)
(*   SpecWorker    start_analysis and the threads of analyze_directory,    *)
(*                 one statement on self.results at a time;                *)
(*   SpecSnapshot  export_results, import_results and compare_results on   *)
(*                 the documents they write and read;                      *)
(*   SpecSession   stop_analysis, reload_config and the saving of a custom *)
(*                 language while a thread of analyze_directory runs;      *)
(*   SpecRestart   start_analysis while a thread of analyze_directory      *)
(*                 runs;                                                   *)
(*   SpecProgress  update_results_ui in the main loop while a thread of    *)
(*                 analyze_directory runs, one read at a time;             *)
(*   SpecConfig    the rule tables as shared dicts: start-up,              *)
(*                 reload_config and the saving of languages.              *)
(*                                                                         *)
(* Text is modelled at character level: a Python str is a sequence of      *)
(* one-character strings, so that str.strip, str.find, the `in` test,      *)
(* str.startswith, str.lower and str.split are computed as Python          *)
(* computes them.  Indices returned by Find are 0-based, as in Python.     *)
(***************************************************************************)
EXTENDS Integers, Sequences, FiniteSets, TLC

(***************************************************************************)
(* Bounds of the model.                                                    *)
(***************************************************************************)
\* the longest file the scanner is run on, in lines
MaxLines == 2
\* a line of a scanned file is a concatenation of at most MaxPieces pieces
MaxPieces == 3
\* the threads running analyze_directory at a time
MaxWorkers == 1
\* the callbacks root.after holds at a time
MaxPending == 2
\* the longest list of include or of exclude patterns
MaxPatterns == 2
\* the longest extension of a classified path, without its dot
MaxExtLen == 2
\* the threads start_analysis creates one after the other
MaxThreads == 2

(***************************************************************************)
(* Python values.                                                          *)
(***************************************************************************)
\* None, kept apart from every str (a str is a sequence of 1-character strings)
None == <<"None">>
\* a value of the duck-typed field single_line_comment: a str ...
PyStr(s) == [isList |-> FALSE, val |-> s]
\* ... or a list of str
PyList(l) == [isList |-> TRUE, val |-> l]

(***************************************************************************)
(* CodeAnalyzer.DEFAULT_LANGUAGES, in the insertion order of the dict.     *)
(* The grave accent among the string delimiters of JavaScript/TypeScript  *)
(* is written "backtick".                                                  *)
(***************************************************************************)
\* a dict with string keys: the set of its keys beside the values; a value is
\* read only through DictGet or after a test of `keys`
DictGet(d, key, default) == IF key \in d.keys THEN d[key] ELSE default

\* one value of the rule table: the four keys every built-in language has
LanguageDict(ext, single, multi, delims) ==
  [ keys |-> {"extensions", "single_line_comment", "multi_line_comment",
              "string_delimiters"},
    extensions |-> ext,
    single_line_comment |-> single,
    multi_line_comment |-> multi,
    string_delimiters |-> delims ]

\* {} : what analyze_directory passes for a language that is not in the table
EmptyDict ==
  [ keys |-> {},
    extensions |-> <<>>,
    single_line_comment |-> PyList(<<>>),
    multi_line_comment |-> <<>>,
    string_delimiters |-> <<>> ]

\* the elements of a list
Range(f) == {f[i] : i \in DOMAIN f}
DEFAULT_LANGUAGES ==
  <<
    [ key |-> "C/C++",
      value |-> LanguageDict(
        <<<<".", "c">>, <<".", "c", "p", "p">>, <<".", "c", "x", "x">>, <<".", "c", "c">>, <<".", "h">>, <<".", "h", "p", "p">>, <<".", "h", "x", "x">>>>,
        PyStr(<<"/", "/">>),
        <<<<<<"/", "*">>, <<"*", "/">>>>>>,
        <<"\"", "'">>) ],
    [ key |-> "C#",
      value |-> LanguageDict(
        <<<<".", "c", "s">>>>,
        PyStr(<<"/", "/">>),
        <<<<<<"/", "*">>, <<"*", "/">>>>>>,
        <<"\"", "'">>) ],
    [ key |-> "Python",
      value |-> LanguageDict(
        <<<<".", "p", "y">>, <<".", "p", "y", "w">>>>,
        PyStr(<<"#">>),
        <<<<<<"\"", "\"", "\"">>, <<"\"", "\"", "\"">>>>, <<<<"'", "'", "'">>, <<"'", "'", "'">>>>>>,
        <<"\"", "'">>) ],
    [ key |-> "Java",
      value |-> LanguageDict(
        <<<<".", "j", "a", "v", "a">>>>,
        PyStr(<<"/", "/">>),
        <<<<<<"/", "*">>, <<"*", "/">>>>>>,
        <<"\"", "'">>) ],
    [ key |-> "Kotlin",
      value |-> LanguageDict(
        <<<<".", "k", "t">>, <<".", "k", "t", "s">>>>,
        PyStr(<<"/", "/">>),
        <<<<<<"/", "*">>, <<"*", "/">>>>>>,
        <<"\"", "'">>) ],
    [ key |-> "JavaScript/TypeScript",
      value |-> LanguageDict(
        <<<<".", "j", "s">>, <<".", "j", "s", "x">>, <<".", "t", "s">>, <<".", "t", "s", "x">>>>,
        PyStr(<<"/", "/">>),
        <<<<<<"/", "*">>, <<"*", "/">>>>>>,
        <<"\"", "'", "backtick">>) ],
    [ key |-> "HTML/CSS",
      value |-> LanguageDict(
        <<<<".", "h", "t", "m", "l">>, <<".", "h", "t", "m">>, <<".", "c", "s", "s">>, <<".", "s", "c", "s", "s">>, <<".", "s", "a", "s", "s">>, <<".", "l", "e", "s", "s">>>>,
        PyStr(<<"/", "/">>),
        <<<<<<"<", "!", "-", "-">>, <<"-", "-", ">">>>>, <<<<"/", "*">>, <<"*", "/">>>>>>,
        <<"\"", "'">>) ],
    [ key |-> "PHP",
      value |-> LanguageDict(
        <<<<".", "p", "h", "p">>, <<".", "p", "h", "p", "3">>, <<".", "p", "h", "p", "4">>, <<".", "p", "h", "p", "5">>, <<".", "p", "h", "t", "m", "l">>>>,
        PyList(<<<<"/", "/">>, <<"#">>>>),
        <<<<<<"/", "*">>, <<"*", "/">>>>>>,
        <<"\"", "'">>) ],
    [ key |-> "Ruby",
      value |-> LanguageDict(
        <<<<".", "r", "b">>, <<".", "r", "b", "w">>, <<".", "r", "a", "k", "e">>>>,
        PyStr(<<"#">>),
        <<<<<<"=", "b", "e", "g", "i", "n">>, <<"=", "e", "n", "d">>>>>>,
        <<"\"", "'">>) ],
    [ key |-> "Rust",
      value |-> LanguageDict(
        <<<<".", "r", "s">>>>,
        PyStr(<<"/", "/">>),
        <<<<<<"/", "*">>, <<"*", "/">>>>>>,
        <<"\"", "'">>) ],
    [ key |-> "Go",
      value |-> LanguageDict(
        <<<<".", "g", "o">>>>,
        PyStr(<<"/", "/">>),
        <<<<<<"/", "*">>, <<"*", "/">>>>>>,
        <<"\"", "'">>) ],
    [ key |-> "Shell",
      value |-> LanguageDict(
        <<<<".", "s", "h">>, <<".", "b", "a", "s", "h">>, <<".", "z", "s", "h">>, <<".", "f", "i", "s", "h">>>>,
        PyStr(<<"#">>),
        <<>>,
        <<"\"", "'">>) ],
    [ key |-> "Assembly",
      value |-> LanguageDict(
        <<<<".", "a", "s", "m">>, <<".", "s">>, <<".", "S">>>>,
        PyList(<<<<";">>, <<"#">>>>),
        <<>>,
        <<"\"", "'">>) ]
  >>

(***************************************************************************)
(* Python str operations used by the scanner.                              *)
(***************************************************************************)
\* the characters str.strip() removes
Whitespace == {" ", "\t", "\n", "\r"}

SetMin(S) == CHOOSE i \in S : \A j \in S : i <= j

RECURSIVE LStrip(_)
LStrip(s) == IF s # <<>> /\ Head(s) \in Whitespace THEN LStrip(Tail(s)) ELSE s

RECURSIVE RStrip(_)
RStrip(s) ==
  IF s # <<>> /\ s[Len(s)] \in Whitespace
  THEN RStrip(SubSeq(s, 1, Len(s) - 1))
  ELSE s

\* s.strip()
Strip(s) == RStrip(LStrip(s))

\* s[i : i + len(sub)] == sub, i counted from 0
OccursAt(s, sub, i) ==
  /\ i >= 0
  /\ i + Len(sub) <= Len(s)
  /\ SubSeq(s, i + 1, i + Len(sub)) = sub

\* s.find(sub, start): the lowest index >= start where sub occurs, else -1
Find(s, sub, start) ==
  LET hits == {i \in start..(Len(s) - Len(sub)) : OccursAt(s, sub, i)}
  IN  IF hits = {} THEN -1 ELSE SetMin(hits)

\* sub in s
Contains(s, sub) == Find(s, sub, 0) # -1

\* s.startswith(prefix)
StartsWith(s, prefix) == OccursAt(s, prefix, 0)

\* s[from:], from counted from 0
SliceFrom(s, from) == SubSeq(s, from + 1, Len(s))

(***************************************************************************)
(* CodeAnalyzer.analyze_file: the body of `for line in lines`.             *)
(*                                                                         *)
(* The scanner's state is a record st with the fields in_block_comment,    *)
(* block_comment_start, block_comment_end, empty_lines, comment_lines and  *)
(* code_lines.                                                             *)
(***************************************************************************)
\* SameLineComment without `if after_comment: code_lines += 1`
SameLineComment_NeverCode(st, lcc, end_idx, end_marker) ==
  [st EXCEPT !.comment_lines = @ + 1]

\* the comment opens and closes on the line: the case `if end_idx != -1`
SameLineComment(st, lcc, end_idx, end_marker) ==
  LET after_comment == Strip(SliceFrom(lcc, end_idx + Len(end_marker)))
  IN  [st EXCEPT
         !.comment_lines = @ + 1,
         !.code_lines = IF after_comment # <<>> THEN @ + 1 ELSE @]

\* OpenBlock that counts the opening line as code too
OpenBlock_AlsoCode(st, start_marker, end_marker) ==
  [st EXCEPT
     !.in_block_comment = TRUE,
     !.block_comment_start = start_marker,
     !.block_comment_end = end_marker,
     !.comment_lines = @ + 1,
     !.code_lines = @ + 1]

\* a block comment starts: the `else` of `if end_marker in line_comment_check`
OpenBlock(st, start_marker, end_marker) ==
  [st EXCEPT
     !.in_block_comment = TRUE,
     !.block_comment_start = start_marker,
     !.block_comment_end = end_marker,
     !.comment_lines = @ + 1]

\* InBlock that counts the line that closes the block as code too
InBlock_ClosingLineCode(st, lcc) ==
  IF Contains(lcc, st.block_comment_end)
  THEN [st EXCEPT
          !.comment_lines = @ + 1,
          !.code_lines = @ + 1,
          !.in_block_comment = FALSE,
          !.block_comment_start = None,
          !.block_comment_end = None]
  ELSE [st EXCEPT !.comment_lines = @ + 1]

\* a line inside a block comment: the `else` of `if not in_block_comment`
InBlock(st, lcc) ==
  IF Contains(lcc, st.block_comment_end)
  THEN [st EXCEPT
          !.comment_lines = @ + 1,
          !.in_block_comment = FALSE,
          !.block_comment_start = None,
          !.block_comment_end = None]
  ELSE [st EXCEPT !.comment_lines = @ + 1]

\* `for start_marker, end_marker in multi_line_comments`, from pair k on;
\* lcc is line_comment_check.  The result is the state and line_comment_check
\* as the loop leaves them (every case that counts the line empties
\* line_comment_check and breaks).
RECURSIVE BlockPairLoop(_, _, _, _)
BlockPairLoop(st, lcc, pairs, k) ==
  IF k > Len(pairs)
  THEN [st |-> st, lcc |-> lcc]
  ELSE
    LET start_marker == pairs[k][1]
        end_marker   == pairs[k][2]
    IN
    IF ~st.in_block_comment
    THEN
      IF Contains(lcc, start_marker)
      THEN
        IF Contains(lcc, end_marker)
        THEN
          LET start_idx == Find(lcc, start_marker, 0)
              end_idx   == Find(lcc, end_marker, start_idx + Len(start_marker))
          IN  IF end_idx # -1
              THEN [st |-> SameLineComment(st, lcc, end_idx, end_marker),
                    lcc |-> <<>>]
              ELSE BlockPairLoop(st, lcc, pairs, k + 1)
        ELSE [st |-> OpenBlock(st, start_marker, end_marker), lcc |-> <<>>]
      ELSE BlockPairLoop(st, lcc, pairs, k + 1)
    ELSE [st |-> InBlock(st, lcc), lcc |-> <<>>]

\* single_line_comments after `if not isinstance(..., list)`
SingleLineMarkers(language_config) ==
  LET single_line_comments ==
        DictGet(language_config, "single_line_comment", PyList(<<>>))
  IN  IF single_line_comments.isList
      THEN single_line_comments.val
      ELSE <<single_line_comments.val>>

\* SingleLineCheck with `comment_marker in line_comment_check` for startswith
SingleLineCheck_AnyPosition(st, lcc, language_config) ==
  LET markers == SingleLineMarkers(language_config)
      is_comment == \E k \in 1..Len(markers) :
                       markers[k] # <<>> /\ Contains(lcc, markers[k])
  IN  IF is_comment
      THEN [st EXCEPT !.comment_lines = @ + 1]
      ELSE [st EXCEPT !.code_lines = @ + 1]

\* `for comment_marker in single_line_comments` and `if not is_comment`
SingleLineCheck(st, lcc, language_config) ==
  LET markers == SingleLineMarkers(language_config)
      is_comment == \E k \in 1..Len(markers) :
                       markers[k] # <<>> /\ StartsWith(lcc, markers[k])
  IN  IF is_comment
      THEN [st EXCEPT !.comment_lines = @ + 1]
      ELSE [st EXCEPT !.code_lines = @ + 1]

\* ScanLine with the empty-line check only outside a block comment: inside
\* one, a blank line is handled as a line of the comment
ScanLine_BlankInsideBlock(st, line, language_config) ==
  LET stripped_line == Strip(line)
      multi_line_comments == DictGet(language_config, "multi_line_comment", <<>>)
  IN
  IF stripped_line = <<>> /\ ~st.in_block_comment
  THEN [st EXCEPT !.empty_lines = @ + 1]
  ELSE
    LET after == IF multi_line_comments # <<>>
                 THEN BlockPairLoop(st, stripped_line, multi_line_comments, 1)
                 ELSE [st |-> st, lcc |-> stripped_line]
    IN  IF after.lcc = <<>>
        THEN after.st
        ELSE SingleLineCheck(after.st, after.lcc, language_config)

\* one iteration of `for line in lines`
ScanLine(st, line, language_config) ==
  LET stripped_line == Strip(line)
      multi_line_comments == DictGet(language_config, "multi_line_comment", <<>>)
  IN
  IF stripped_line = <<>>
  THEN [st EXCEPT !.empty_lines = @ + 1]
  ELSE
    LET after == IF multi_line_comments # <<>>
                 THEN BlockPairLoop(st, stripped_line, multi_line_comments, 1)
                 ELSE [st |-> st, lcc |-> stripped_line]
    IN  IF after.lcc = <<>>
        THEN after.st
        ELSE SingleLineCheck(after.st, after.lcc, language_config)

\* the scanner's state before the first line
ScanStart ==
  [ in_block_comment |-> FALSE,
    block_comment_start |-> None,
    block_comment_end |-> None,
    empty_lines |-> 0,
    comment_lines |-> 0,
    code_lines |-> 0 ]

\* analyze_file on a file that could be read: the scanner's state after the
\* last of `lines`
RECURSIVE ScanLines(_, _, _)
ScanLines(st, lines, language_config) ==
  IF lines = <<>>
  THEN st
  ELSE ScanLines(ScanLine(st, Head(lines), language_config), Tail(lines),
                 language_config)

\* the dict analyze_file returns for a file it could read (file_name, the
\* basename of file_path, left out)
ScanResult(file_path, lines, language_config) ==
  LET st == ScanLines(ScanStart, lines, language_config)
  IN  [ total_lines |-> Len(lines),
        empty_lines |-> st.empty_lines,
        comment_lines |-> st.comment_lines,
        code_lines |-> st.code_lines,
        file_path |-> file_path ]

(***************************************************************************)
(* CodeAnalyzer.get_language_from_extension.                               *)
(*                                                                         *)
(* A dict whose keys are not fixed (the rule table, results) is a sequence *)
(* of [key, value] records in insertion order, the order in which          *)
(* dict.items() yields them.                                               *)
(***************************************************************************)
UpperCase ==
  <<"A", "B", "C", "D", "E", "F", "G", "H", "I", "J", "K", "L", "M",
    "N", "O", "P", "Q", "R", "S", "T", "U", "V", "W", "X", "Y", "Z">>
LowerCase ==
  <<"a", "b", "c", "d", "e", "f", "g", "h", "i", "j", "k", "l", "m",
    "n", "o", "p", "q", "r", "s", "t", "u", "v", "w", "x", "y", "z">>

LowerChar(c) ==
  IF \E n \in DOMAIN UpperCase : UpperCase[n] = c
  THEN LowerCase[CHOOSE n \in DOMAIN UpperCase : UpperCase[n] = c]
  ELSE c

\* s.lower()
RECURSIVE Lower(_)
Lower(s) == IF s = <<>> THEN <<>> ELSE <<LowerChar(Head(s))>> \o Lower(Tail(s))

\* s.rfind(c) for a character c: the highest 0-based index, else -1
RFind(s, c) ==
  LET hits == {n \in 0..(Len(s) - 1) : s[n + 1] = c}
  IN  IF hits = {} THEN -1 ELSE CHOOSE n \in hits : \A m \in hits : m <= n

\* p without the slashes it ends with
RECURSIVE DropTrailingSlashes(_)
DropTrailingSlashes(p) ==
  IF p # <<>> /\ p[Len(p)] = "/"
  THEN DropTrailingSlashes(SubSeq(p, 1, Len(p) - 1))
  ELSE p

\* Path(p).name: the path's last component
PathName(p) ==
  LET q == DropTrailingSlashes(p)
  IN  SliceFrom(q, RFind(q, "/") + 1)

\* Path(p).suffix: the last component from its last dot on, unless that dot
\* is its first or its last character
Suffix(p) ==
  LET name == PathName(p)
      dot  == RFind(name, ".")
  IN  IF 0 < dot /\ dot < Len(name) - 1 THEN SliceFrom(name, dot) ELSE <<>>

\* `for lang, config in language_configs.items()`, from entry k on
RECURSIVE FirstLanguageWith(_, _, _)
FirstLanguageWith(ext, language_configs, k) ==
  IF k > Len(language_configs)
  THEN "Unknown"
  ELSE LET lang   == language_configs[k].key
           config == language_configs[k].value
       IN  IF "extensions" \in config.keys /\ ext \in Range(config.extensions)
           THEN lang
           ELSE FirstLanguageWith(ext, language_configs, k + 1)

\* get_language_from_extension without .lower()
GetLanguageFromExtension_CaseSensitive(file_path, language_configs) ==
  FirstLanguageWith(Suffix(file_path), language_configs, 1)

GetLanguageFromExtension(file_path, language_configs) ==
  FirstLanguageWith(Lower(Suffix(file_path)), language_configs, 1)
\* the directories of the scanned tree: what os.walk finds in each
Directories ==
  <<
    \* p: dirs ['.git', 'src'], files ['a.py', 'b.c', 'notes.txt', 'test_a.PY']
    [ path |-> <<"p">>,
      dirs |-> <<<<".", "g", "i", "t">>, <<"s", "r", "c">>>>,
      filenames |-> <<<<"a", ".", "p", "y">>, <<"b", ".", "c">>, <<"n", "o", "t", "e", "s", ".", "t", "x", "t">>, <<"t", "e", "s", "t", "_", "a", ".", "P", "Y">>>> ],
    \* p/.git: dirs [], files ['hook.py']
    [ path |-> <<"p", "/", ".", "g", "i", "t">>,
      dirs |-> <<>>,
      filenames |-> <<<<"h", "o", "o", "k", ".", "p", "y">>>> ],
    \* p/src: dirs ['.hid', 'test'], files ['m.c', 'lock.c']
    [ path |-> <<"p", "/", "s", "r", "c">>,
      dirs |-> <<<<".", "h", "i", "d">>, <<"t", "e", "s", "t">>>>,
      filenames |-> <<<<"m", ".", "c">>, <<"l", "o", "c", "k", ".", "c">>>> ],
    \* p/src/.hid: dirs [], files ['x.py']
    [ path |-> <<"p", "/", "s", "r", "c", "/", ".", "h", "i", "d">>,
      dirs |-> <<>>,
      filenames |-> <<<<"x", ".", "p", "y">>>> ],
    \* p/src/test: dirs [], files ['t.py', '.k']
    [ path |-> <<"p", "/", "s", "r", "c", "/", "t", "e", "s", "t">>,
      dirs |-> <<>>,
      filenames |-> <<<<"t", ".", "p", "y">>, <<".", "k">>>> ]
  >>

\* what open() and readlines() give for each file of the tree; lock.c cannot
\* be opened
FileLines ==
  <<
    \* p/a.py: '# header\n\ncode()\n'
    [ path |-> <<"p", "/", "a", ".", "p", "y">>,
      readable |-> TRUE,
      lines |-> <<<<"#", " ", "h", "e", "a", "d", "e", "r", "\n">>, <<"\n">>, <<"c", "o", "d", "e", "(", ")", "\n">>>> ],
    \* p/b.c: '/* a */ int x;\n'
    [ path |-> <<"p", "/", "b", ".", "c">>,
      readable |-> TRUE,
      lines |-> <<<<"/", "*", " ", "a", " ", "*", "/", " ", "i", "n", "t", " ", "x", ";", "\n">>>> ],
    \* p/notes.txt: 'hello\n'
    [ path |-> <<"p", "/", "n", "o", "t", "e", "s", ".", "t", "x", "t">>,
      readable |-> TRUE,
      lines |-> <<<<"h", "e", "l", "l", "o", "\n">>>> ],
    \* p/test_a.PY: 'x = 1  # one\n\n'
    [ path |-> <<"p", "/", "t", "e", "s", "t", "_", "a", ".", "P", "Y">>,
      readable |-> TRUE,
      lines |-> <<<<"x", " ", "=", " ", "1", " ", " ", "#", " ", "o", "n", "e", "\n">>, <<"\n">>>> ],
    \* p/.git/hook.py: 'pass\n'
    [ path |-> <<"p", "/", ".", "g", "i", "t", "/", "h", "o", "o", "k", ".", "p", "y">>,
      readable |-> TRUE,
      lines |-> <<<<"p", "a", "s", "s", "\n">>>> ],
    \* p/src/m.c: '/* start\nmiddle\nend */\n'
    [ path |-> <<"p", "/", "s", "r", "c", "/", "m", ".", "c">>,
      readable |-> TRUE,
      lines |-> <<<<"/", "*", " ", "s", "t", "a", "r", "t", "\n">>, <<"m", "i", "d", "d", "l", "e", "\n">>, <<"e", "n", "d", " ", "*", "/", "\n">>>> ],
    \* p/src/lock.c: unreadable
    [ path |-> <<"p", "/", "s", "r", "c", "/", "l", "o", "c", "k", ".", "c">>,
      readable |-> FALSE,
      lines |-> <<>> ],
    \* p/src/.hid/x.py: 'pass\n'
    [ path |-> <<"p", "/", "s", "r", "c", "/", ".", "h", "i", "d", "/", "x", ".", "p", "y">>,
      readable |-> TRUE,
      lines |-> <<<<"p", "a", "s", "s", "\n">>>> ],
    \* p/src/test/t.py: '  # t\nt()\n'
    [ path |-> <<"p", "/", "s", "r", "c", "/", "t", "e", "s", "t", "/", "t", ".", "p", "y">>,
      readable |-> TRUE,
      lines |-> <<<<" ", " ", "#", " ", "t", "\n">>, <<"t", "(", ")", "\n">>>> ],
    \* p/src/test/.k: 'k\n'
    [ path |-> <<"p", "/", "s", "r", "c", "/", "t", "e", "s", "t", "/", ".", "k">>,
      readable |-> TRUE,
      lines |-> <<<<"k", "\n">>>> ]
  >>

\* texts of the include and exclude entries, and directories to choose
\* '*'
Text_Star == <<"*">>
\* ''
Text_Empty == <<>>
\* '.py, .c'
Text_PyC == <<".", "p", "y", ",", " ", ".", "c">>
\* 'src,'
Text_Src == <<"s", "r", "c", ",">>
\* ' test , .git'
Text_TestGit == <<" ", "t", "e", "s", "t", " ", ",", " ", ".", "g", "i", "t">>
\* 'p'
Dir_p == <<"p">>
\* 'p/src'
Dir_p_src == <<"p", "/", "s", "r", "c">>
\* 'p/.git'
Dir_p_git == <<"p", "/", ".", "g", "i", "t">>

(***************************************************************************)
(* ModernCodeCounterApp.collect_files, over the file system below.         *)
(***************************************************************************)
\* what os.walk reports for directory `path` (nothing for a path that is none)
DirEntry(path) ==
  IF \E n \in DOMAIN Directories : Directories[n].path = path
  THEN Directories[CHOOSE n \in DOMAIN Directories : Directories[n].path = path]
  ELSE [path |-> path, dirs |-> <<>>, filenames |-> <<>>]

\* os.path.join(a, b) for a relative b
Join(a, b) ==
  IF a = <<>> \/ a[Len(a)] = "/" THEN a \o b ELSE a \o <<"/">> \o b

\* dirs left as os.walk gave it
KeptDirs_All(dirs) == dirs

\* `dirs[:] = [d for d in dirs if not d.startswith('.')]`
KeptDirs(dirs) == SelectSeq(dirs, LAMBDA d : ~StartsWith(d, <<".">>))

\* the loop over self.exclude_patterns: the value of `skip`
ExcludeMatch(file_path, exclude_patterns) ==
  \E k \in DOMAIN exclude_patterns :
    LET pattern == exclude_patterns[k]
    IN  pattern # <<>> /\ pattern # <<"*">> /\ Contains(file_path, pattern)

\* the value of `include`
IncludeMatch(file_path, include_patterns) ==
  \/ <<"*">> \in Range(include_patterns)
  \/ \E k \in DOMAIN include_patterns :
       LET pattern == include_patterns[k]
       IN  pattern # <<>> /\ Contains(file_path, pattern)

\* the filter with the include test first and the exclude test only for a file
\* the wildcard did not include
KeepFile_WildcardFirst(file_path, include_patterns, exclude_patterns) ==
  \/ <<"*">> \in Range(include_patterns)
  \/ /\ ~ExcludeMatch(file_path, exclude_patterns)
     /\ IncludeMatch(file_path, include_patterns)

\* whether the body of `for filename in filenames` appends file_path
KeepFile(file_path, include_patterns, exclude_patterns) ==
  /\ ~ExcludeMatch(file_path, exclude_patterns)
  /\ IncludeMatch(file_path, include_patterns)

\* `for filename in filenames` in directory root_dir, from filename k on
RECURSIVE FilterFiles(_, _, _, _, _, _)
FilterFiles(root_dir, filenames, k, files, include_patterns, exclude_patterns) ==
  IF k > Len(filenames)
  THEN files
  ELSE LET file_path == Join(root_dir, filenames[k])
       IN  FilterFiles(root_dir, filenames, k + 1,
                       IF KeepFile(file_path, include_patterns, exclude_patterns)
                       THEN Append(files, file_path)
                       ELSE files,
                       include_patterns, exclude_patterns)

\* one iteration of `for root_dir, dirs, filenames in os.walk(...)`: os.walk
\* yields the first directory of todo and goes on, top-down, with the
\* directories the body left in dirs, before the rest of todo
VisitDir(todo, files, include_patterns, exclude_patterns) ==
  LET root_dir == Head(todo)
      entry    == DirEntry(root_dir)
      dirs     == KeptDirs(entry.dirs)
  IN  [ todo  |-> [n \in DOMAIN dirs |-> Join(root_dir, dirs[n])] \o Tail(todo),
        files |-> FilterFiles(root_dir, entry.filenames, 1, files,
                              include_patterns, exclude_patterns) ]

\* the whole walk
RECURSIVE WalkAll(_, _, _, _)
WalkAll(todo, files, include_patterns, exclude_patterns) ==
  IF todo = <<>>
  THEN files
  ELSE LET v == VisitDir(todo, files, include_patterns, exclude_patterns)
       IN  WalkAll(v.todo, v.files, include_patterns, exclude_patterns)

\* collect_files()
CollectFiles(current_directory, include_patterns, exclude_patterns) ==
  WalkAll(<<current_directory>>, <<>>, include_patterns, exclude_patterns)

(***************************************************************************)
(* ModernCodeCounterApp.update_config_from_ui and analyze_directory.       *)
(***************************************************************************)
\* text.split(","), as a sequence of str
RECURSIVE SplitComma(_)
SplitComma(text) ==
  LET comma == Find(text, <<",">>, 0)
  IN  IF comma = -1
      THEN <<text>>
      ELSE <<SubSeq(text, 1, comma)>> \o SplitComma(SliceFrom(text, comma + 1))

\* `[p.strip() for p in text.split(",") if p.strip()]`
PatternsOf(text) ==
  LET parts == SplitComma(text)
      stripped == [n \in DOMAIN parts |-> Strip(parts[n])]
  IN  SelectSeq(stripped, LAMBDA p : p # <<>>)

\* operations on a dict kept as a sequence of [key, value] records
Keys(d) == [n \in DOMAIN d |-> d[n].key]
DictHas(d, key) == \E n \in DOMAIN d : d[n].key = key
DictIndex(d, key) == CHOOSE n \in DOMAIN d : d[n].key = key
DictValue(d, key) == d[DictIndex(d, key)].value
\* d.get(key, default)
DictValueOr(d, key, default) ==
  IF DictHas(d, key) THEN DictValue(d, key) ELSE default
\* d[key] = value
DictSet(d, key, value) ==
  IF DictHas(d, key)
  THEN [d EXCEPT ![DictIndex(d, key)].value = value]
  ELSE Append(d, [key |-> key, value |-> value])

\* open() and readlines() on file_path
FileEntry(file_path) ==
  IF \E n \in DOMAIN FileLines : FileLines[n].path = file_path
  THEN FileLines[CHOOSE n \in DOMAIN FileLines : FileLines[n].path = file_path]
  ELSE [path |-> file_path, readable |-> FALSE, lines |-> <<>>]

\* analyze_file with a dict of zero counts for a file that cannot be opened
AnalyzeFile_ZeroCounts(file_path, language_config) ==
  <<ScanResult(file_path, FileEntry(file_path).lines, language_config)>>

\* CodeAnalyzer.analyze_file(file_path, language_config): <<>> for None, else
\* <<d>> for the dict d it returns
AnalyzeFile(file_path, language_config) ==
  LET entry == FileEntry(file_path)
  IN  IF ~entry.readable
      THEN <<>>
      ELSE <<ScanResult(file_path, entry.lines, language_config)>>

\* `if language not in self.selected_languages and language != "Unknown"`
SkipsLanguage(language, selected_languages) ==
  language \notin Range(selected_languages) /\ language # "Unknown"

\* `if language not in self.results: self.results[language] = {...}`
CreateAggregate(results, language) ==
  IF DictHas(results, language)
  THEN results
  ELSE DictSet(results, language,
               [ files |-> <<>>,
                 total_lines |-> 0,
                 code_lines |-> 0,
                 comment_lines |-> 0,
                 empty_lines |-> 0 ])

\* self.results[language]["files"].append(result)
AppendFile(results, language, result) ==
  [results EXCEPT ![DictIndex(results, language)].value.files = Append(@, result)]

\* self.results[language]["total_lines"] += result["total_lines"]
AddTotalLines(results, language, result) ==
  [results EXCEPT
     ![DictIndex(results, language)].value.total_lines = @ + result.total_lines]

\* the next line with result["comment_lines"] for result["code_lines"]
AddCodeLines_CommentLines(results, language, result) ==
  [results EXCEPT
     ![DictIndex(results, language)].value.code_lines = @ + result.comment_lines]

\* self.results[language]["code_lines"] += result["code_lines"]
AddCodeLines(results, language, result) ==
  [results EXCEPT
     ![DictIndex(results, language)].value.code_lines = @ + result.code_lines]

\* self.results[language]["comment_lines"] += result["comment_lines"]
AddCommentLines(results, language, result) ==
  [results EXCEPT
     ![DictIndex(results, language)].value.comment_lines = @ + result.comment_lines]

\* self.results[language]["empty_lines"] += result["empty_lines"]
AddEmptyLines(results, language, result) ==
  [results EXCEPT
     ![DictIndex(results, language)].value.empty_lines = @ + result.empty_lines]

(***************************************************************************)
(* json.dump and json.load on the documents export_results writes.  A      *)
(* JSON text is kept as the tree of values it denotes: an object is the    *)
(* sequence of its members in the order of the text.  Of a dict that is    *)
(* kept as a record (an aggregate, a file record) the order of the keys is *)
(* not kept: the members are written in the order of AggregateKeys and of  *)
(* FileKeys.                                                               *)
(***************************************************************************)
JNum(n) == [type |-> "number", num |-> n]
\* a str given by its name (a language, a timestamp)
JStr(s) == [type |-> "string", str |-> s]
\* a str given by its characters (a path, a pattern)
JText(chars) == [type |-> "string", chars |-> chars]
JArr(items) == [type |-> "array", items |-> items]
JObj(members) == [type |-> "object", members |-> members]
JMember(name, value) == [name |-> name, value |-> value]

\* the keys of an aggregate and of a file record, in the order they are set
AggregateKeys ==
  <<"files", "total_lines", "code_lines", "comment_lines", "empty_lines">>
FileKeys ==
  <<"total_lines", "empty_lines", "comment_lines", "code_lines", "file_path">>

\* the members of a dict kept as a record, for the keys it has
DumpRecord(d, keys, DumpValue(_, _)) ==
  LET present == SelectSeq(keys, LAMBDA k : k \in DOMAIN d)
  IN  JObj([n \in DOMAIN present |->
              JMember(present[n], DumpValue(present[n], d[present[n]]))])

\* one element of "files"
DumpFile(file) ==
  DumpRecord(file, FileKeys,
             LAMBDA k, v : IF k = "file_path" THEN JText(v) ELSE JNum(v))

\* one value of self.results with its "files" left empty
DumpAggregate_NoFiles(data) ==
  DumpRecord(data, AggregateKeys,
             LAMBDA k, v : IF k = "files" THEN JArr(<<>>) ELSE JNum(v))

\* one value of self.results
DumpAggregate(data) ==
  DumpRecord(data, AggregateKeys,
             LAMBDA k, v : IF k = "files"
                           THEN JArr([n \in DOMAIN v |-> DumpFile(v[n])])
                           ELSE JNum(v))

\* self.results
DumpResults(results_) ==
  JObj([n \in DOMAIN results_ |->
          JMember(results_[n].key, DumpAggregate(results_[n].value))])

\* a list of str given by their characters
DumpTexts(texts) == JArr([n \in DOMAIN texts |-> JText(texts[n])])
\* a list of str given by their names
DumpNames(names) == JArr([n \in DOMAIN names |-> JStr(names[n])])

\* json.dump(export_data, f, indent=2, ensure_ascii=False)
DumpExportData(directory, timestamp, results_, include_patterns_, exclude_patterns_, selected_languages_) ==
  JObj(<< JMember("directory", JText(directory)),
          JMember("timestamp", JStr(timestamp)),
          JMember("results", DumpResults(results_)),
          JMember("config",
                  JObj(<< JMember("include_patterns",
                                  DumpTexts(include_patterns_)),
                          JMember("exclude_patterns",
                                  DumpTexts(exclude_patterns_)),
                          JMember("selected_languages",
                                  DumpNames(selected_languages_)) >>)) >>)

\* the names of the members of an object
MemberNames(obj) == {obj.members[n].name : n \in DOMAIN obj.members}
\* the value json.load keeps for a name: the one of its last member
MemberValue(obj, name) ==
  LET last == CHOOSE n \in DOMAIN obj.members :
                /\ obj.members[n].name = name
                /\ \A m \in DOMAIN obj.members :
                     obj.members[m].name = name => m <= n
  IN  obj.members[last].value

\* an object read as a dict that is kept as a record
LoadRecord(obj, LoadValue(_, _)) ==
  [k \in MemberNames(obj) |-> LoadValue(k, MemberValue(obj, k))]

LoadFile(obj) ==
  LoadRecord(obj, LAMBDA k, v : IF k = "file_path" THEN v.chars ELSE v.num)

LoadAggregate(obj) ==
  LoadRecord(obj,
             LAMBDA k, v : IF k = "files"
                           THEN [n \in DOMAIN v.items |-> LoadFile(v.items[n])]
                           ELSE v.num)

\* an object read as a dict that is kept as a sequence of [key, value]: a
\* name that comes twice keeps its first place and its last value
RECURSIVE LoadResultsFrom(_, _, _)
LoadResultsFrom(obj, n, loaded) ==
  IF n > Len(obj.members)
  THEN loaded
  ELSE LoadResultsFrom(obj, n + 1,
                       DictSet(loaded, obj.members[n].name,
                               LoadAggregate(obj.members[n].value)))
LoadResults(obj) == LoadResultsFrom(obj, 1, <<>>)

\* json.load(f) on a document of export_results: the dict of its members;
\* only "results" is read after it, the other values stay as they are
LoadDocument(obj) ==
  LoadRecord(obj, LAMBDA k, v : IF k = "results" THEN LoadResults(v) ELSE v)

(***************************************************************************)
(* str of an int, the format `+d`, and the order of str.                   *)
(***************************************************************************)
DecimalDigits == <<"0", "1", "2", "3", "4", "5", "6", "7", "8", "9">>

\* f"{n}" for n >= 0
RECURSIVE Decimal(_)
Decimal(n) ==
  IF n < 10
  THEN <<DecimalDigits[n + 1]>>
  ELSE Append(Decimal(n \div 10), DecimalDigits[(n % 10) + 1])

\* the magnitude with "+" before it, whatever the sign
FormatSigned_Magnitude(n) ==
  IF n < 0 THEN <<"+">> \o Decimal(0 - n) ELSE <<"+">> \o Decimal(n)

\* f"{n:+d}"
FormatSigned(n) ==
  IF n < 0 THEN <<"-">> \o Decimal(0 - n) ELSE <<"+">> \o Decimal(n)

\* the characters from " " to "~" in the order of their code points
CodePoints ==
  << " ", "!", "\"", "#", "$", "%", "&", "'", "(", ")", "*", "+", ",", "-",
     ".", "/", "0", "1", "2", "3", "4", "5", "6", "7", "8", "9", ":", ";",
     "<", "=", ">", "?", "@", "A", "B", "C", "D", "E", "F", "G", "H", "I",
     "J", "K", "L", "M", "N", "O", "P", "Q", "R", "S", "T", "U", "V", "W",
     "X", "Y", "Z", "[", "\\", "]", "^", "_", "backtick", "a", "b", "c",
     "d", "e", "f", "g", "h", "i", "j", "k", "l", "m", "n", "o", "p", "q",
     "r", "s", "t", "u", "v", "w", "x", "y", "z", "{", "|", "}", "~" >>

\* ord(c)
Ord(c) == 31 + (CHOOSE n \in DOMAIN CodePoints : CodePoints[n] = c)

\* a < b for two str given by their characters
RECURSIVE StrLess(_, _)
StrLess(a, b) ==
  IF b = <<>> THEN FALSE
  ELSE IF a = <<>> THEN TRUE
  ELSE IF Ord(Head(a)) # Ord(Head(b)) THEN Ord(Head(a)) < Ord(Head(b))
  ELSE StrLess(Tail(a), Tail(b))

\* the characters of the language names that come in results and documents
NameChars ==
  [ name \in {"C/C++", "C#", "Python", "Unknown", "awk"} |->
      CASE name = "C/C++" -> <<"C", "/", "C", "+", "+">>
        [] name = "C#" -> <<"C", "#">>
        [] name = "Python" -> <<"P", "y", "t", "h", "o", "n">>
        [] name = "Unknown" -> <<"U", "n", "k", "n", "o", "w", "n">>
        [] name = "awk" -> <<"a", "w", "k">> ]

\* sorted(names) for a set of language names
RECURSIVE Sorted(_)
Sorted(names) ==
  IF names = {}
  THEN <<>>
  ELSE LET least == CHOOSE x \in names :
                      \A y \in names \ {x} : StrLess(NameChars[x], NameChars[y])
       IN  <<least>> \o Sorted(names \ {least})

(***************************************************************************)
(* perform_comparison(data1, data2).  What it writes to compare_text is    *)
(* kept as the overall line and one entry per language; every number is    *)
(* kept as the text its format gives.                                      *)
(***************************************************************************)
\* `{"files": [], "total_lines": 0, "code_lines": 0}`
AbsentLanguage == [files |-> <<>>, total_lines |-> 0, code_lines |-> 0]

\* data.get("results", {})
ResultsOf(data) == IF "results" \in DOMAIN data THEN data.results ELSE <<>>

\* sum(len(data["files"]) for data in results.values())
RECURSIVE SumFiles(_)
SumFiles(results_) ==
  IF results_ = <<>> THEN 0
  ELSE Len(Head(results_).value.files) + SumFiles(Tail(results_))

\* sum(data["total_lines"] for data in results.values())
RECURSIVE SumTotalLines(_)
SumTotalLines(results_) ==
  IF results_ = <<>> THEN 0
  ELSE Head(results_).value.total_lines + SumTotalLines(Tail(results_))

\* the two sums raise KeyError on an aggregate without the key
SumsRaise(results_) ==
  \E n \in DOMAIN results_ :
    \/ "files" \notin DOMAIN results_[n].value
    \/ "total_lines" \notin DOMAIN results_[n].value

\* "a → b (±d)" with d the first number minus the second
DeltaText_FirstMinusSecond(first, second) ==
  [ first |-> Decimal(first),
    second |-> Decimal(second),
    diff |-> FormatSigned(first - second) ]

\* `files_diff = files2 - files1` and the like: "a → b (±d)" with d the
\* second number minus the first
DeltaText(first, second) ==
  [ first |-> Decimal(first),
    second |-> Decimal(second),
    diff |-> FormatSigned(second - first) ]

\* data.get("code_lines", 0)
CodeLinesOf(data) ==
  IF "code_lines" \in DOMAIN data THEN data.code_lines ELSE 0

\* set(results1.keys()) | set(results2.keys())
AllLanguages(results1, results2) ==
  Range(Keys(results1)) \cup Range(Keys(results2))

\* one pass of `for language in sorted(all_languages)`
LanguageEntry(language_, results1, results2) ==
  LET data1 == DictValueOr(results1, language_, AbsentLanguage)
      data2 == DictValueOr(results2, language_, AbsentLanguage)
  IN  [ language |-> language_,
        files |-> DeltaText(Len(data1.files), Len(data2.files)),
        total_lines |-> DeltaText(data1.total_lines, data2.total_lines),
        code_lines |-> DeltaText(CodeLinesOf(data1), CodeLinesOf(data2)) ]

\* compare_text after the title is inserted
TitleOnly == [overall |-> <<>>, languages |-> <<>>]

\* perform_comparison: what compare_text holds when it returns or raises, and
\* whether it raised
PerformComparison(data1, data2) ==
  LET results1 == ResultsOf(data1)
      results2 == ResultsOf(data2)
  IN  IF SumsRaise(results1) \/ SumsRaise(results2)
      THEN [raised |-> TRUE, text |-> TitleOnly]
      ELSE LET order == Sorted(AllLanguages(results1, results2))
           IN  [ raised |-> FALSE,
                 text |->
                   [ overall |->
                       << [ files |-> DeltaText(SumFiles(results1),
                                                SumFiles(results2)),
                            total_lines |->
                              DeltaText(SumTotalLines(results1),
                                        SumTotalLines(results2)) ] >>,
                     languages |->
                       [n \in DOMAIN order |->
                          LanguageEntry(order[n], results1, results2)] ] ]

(***************************************************************************)
(* The files the scanner is run on.  A line is a concatenation of at most  *)
(* MaxPieces pieces followed by its line break (readlines keeps it); the   *)
(* pieces are the markers of the language, a block comment that is opened  *)
(* and closed at once, a letter and a space.                               *)
(***************************************************************************)
Pieces(config) ==
  LET pairs == DictGet(config, "multi_line_comment", <<>>)
  IN  {<<"x">>, <<" ">>}
        \cup Range(SingleLineMarkers(config))
        \cup {pairs[k][1] : k \in DOMAIN pairs}
        \cup {pairs[k][2] : k \in DOMAIN pairs}
        \cup {pairs[k][1] \o pairs[k][2] : k \in DOMAIN pairs}

RECURSIVE Concats(_, _)
Concats(P, n) ==
  IF n = 0
  THEN {<<>>}
  ELSE LET shorter == Concats(P, n - 1)
       IN  shorter \cup {s \o p : s \in shorter, p \in P}

LinesOf(config) ==
  {s \o <<"\n">> : s \in Concats(Pieces(config), MaxPieces)}

\* what analyze_file reads of a language's dict
ScanView(d) ==
  [ keys |-> d.keys \cap {"single_line_comment", "multi_line_comment"},
    single_line_comment |-> d.single_line_comment,
    multi_line_comment |-> d.multi_line_comment ]

\* the dicts analyze_directory passes: a language of the table, or {}
ScanConfigs ==
  {ScanView(DEFAULT_LANGUAGES[i].value) : i \in DOMAIN DEFAULT_LANGUAGES}
    \cup {ScanView(EmptyDict)}

(***************************************************************************)
(* State.  Of the widgets it holds the rows of self.tree; of self.config   *)
(* and the configuration files, the rule tables.                           *)
(***************************************************************************)
VARIABLES
  \* analyze_file
  language_config,      \* its argument language_config
  total_lines,          \* len(lines): the lines of the file produced so far
  line,                 \* the loop variable, None between two iterations
  empty_lines,
  comment_lines,
  code_lines,
  in_block_comment,
  block_comment_start,
  block_comment_end,
  both_lines,           \* history: the lines counted as comment and as code
  nonblank_lines,       \* history: the lines of the file that are not blank
  sc_pc,                \* "loop": at `for line in lines`; "body": a line is
                        \* taken; "next": its body has run; "done": returned;
                        \* "idle": no call
  \* get_language_from_extension
  file_path,            \* its argument file_path, None before a call
  language,             \* what it returned, "" before a call
  \* ModernCodeCounterApp
  language_configs,     \* self.language_configs, the rule table
  current_directory,    \* self.current_directory
  include_patterns,     \* self.include_patterns
  exclude_patterns,     \* self.exclude_patterns
  selected_languages,   \* self.selected_languages, None while it is not set
  results,              \* self.results
  after_queue,          \* the callbacks handed to root.after(0, ...) that
                        \* the main loop has not run yet
  \* collect_files
  files,                \* its local files
  walk_todo,            \* the directories os.walk has still to yield
  cf_pc,                \* "walk": in the loop; "done": returned; "idle"
  \* analyze_directory
  worker,               \* for each thread: where it is, and its locals
  scan_workers,         \* history: the threads that have been running since
                        \* self.results was last set to {}
  stopped,              \* history: stop_analysis has run since the last
                        \* start_analysis
  started,              \* history: for each thread, the attributes of the
                        \* application as start_analysis left them
  \* export_results, import_results, compare_results
  disk,                 \* the files the dialogs can choose
  compare_text,         \* what perform_comparison wrote to self.compare_text
  last_op,              \* history: the handler that ran last, the paths
                        \* chosen in its dialogs, and the messagebox it showed
  exported,             \* history: for each file export_results wrote, the
                        \* self.results it was given
  \* update_results_ui
  tree,                 \* the rows of self.tree
  ui,                   \* where update_results_ui is, its iterator over
                        \* self.results, the values it has read for the row
                        \* it is at, and the exception that ended it
  \* the rule tables and their files
  default_languages,    \* what the dict CodeAnalyzer.DEFAULT_LANGUAGES holds
  shares_default,       \* self.language_configs is that very dict
  config_file,          \* code_counter_config.json
  custom_file           \* custom_languages.json

scanVars ==
  <<language_config, total_lines, line, empty_lines, comment_lines, code_lines,
    in_block_comment, block_comment_start, block_comment_end, both_lines,
    nonblank_lines, sc_pc>>

classifyVars == <<file_path, language>>

appVars ==
  <<language_configs, current_directory, include_patterns, exclude_patterns,
    selected_languages, results, after_queue>>

collectVars == <<files, walk_todo, cf_pc>>

workerVars == <<worker, scan_workers, stopped, started>>

snapshotVars == <<disk, compare_text, last_op, exported>>

uiVars == <<tree, ui>>

configVars == <<default_languages, shares_default, config_file, custom_file>>

vars ==
  <<scanVars, classifyVars, appVars, collectVars, workerVars, snapshotVars,
    uiVars, configVars>>

\* the threads that can run analyze_directory
Workers == 1..MaxWorkers

\* a thread that does not run
IdleWorker ==
  [pc |-> "idle", files |-> <<>>, i |-> 0, language |-> "", result |-> <<>>]

\* no call of analyze_file
ScanIdle ==
  /\ language_config = EmptyDict
  /\ total_lines = 0
  /\ line = None
  /\ empty_lines = 0
  /\ comment_lines = 0
  /\ code_lines = 0
  /\ in_block_comment = FALSE
  /\ block_comment_start = None
  /\ block_comment_end = None
  /\ both_lines = 0
  /\ nonblank_lines = 0
  /\ sc_pc = "idle"

\* no call of get_language_from_extension
ClassifyIdle ==
  /\ file_path = None
  /\ language = ""

\* the attributes __init__ sets, without a configuration file
AppInit ==
  /\ language_configs = DEFAULT_LANGUAGES
  /\ current_directory = <<>>
  /\ include_patterns = <<<<"*">>>>
  /\ exclude_patterns = <<>>
  /\ selected_languages = None
  /\ results = <<>>
  /\ after_queue = <<>>

\* no call of collect_files
CollectIdle ==
  /\ files = <<>>
  /\ walk_todo = <<>>
  /\ cf_pc = "idle"

\* no thread
WorkersIdle ==
  /\ worker = [w \in Workers |-> IdleWorker]
  /\ scan_workers = {}
  /\ stopped = FALSE
  /\ started = [w \in Workers |-> <<>>]


\* the files the dialogs of export, import and compare can choose
SnapshotPaths == {"one.json", "two.json"}

\* a file that does not exist
NoFile == [exists |-> FALSE, valid |-> FALSE, json |-> JObj(<<>>)]
\* a file that is not JSON
InvalidFile == [exists |-> TRUE, valid |-> FALSE, json |-> JObj(<<>>)]
\* a file holding a JSON text
JsonFile(json) == [exists |-> TRUE, valid |-> TRUE, json |-> json]

\* compare_text before a comparison
NoText == [overall |-> <<>>, languages |-> <<>>]
\* no handler has run
NoOp == [op |-> "none", paths |-> <<>>, dialog |-> "none"]

\* no snapshot file, no comparison
SnapshotIdle ==
  /\ disk = [path \in SnapshotPaths |-> NoFile]
  /\ compare_text = NoText
  /\ last_op = NoOp
  /\ exported = [path \in SnapshotPaths |-> <<>>]

\* update_results_ui does not run and has drawn nothing
UiIdle ==
  /\ tree = <<>>
  /\ ui = [ pc |-> "idle", used |-> 0, i |-> 0, row |-> <<>>,
           error |-> "none", scanning |-> FALSE ]

\* a code_counter_config.json or custom_languages.json that does not exist
Absent ==
  [exists |-> FALSE, valid |-> FALSE, has_table |-> FALSE, table |-> <<>>]

\* the built-in table is as the class statement left it, and no file
ConfigIdle ==
  /\ default_languages = DEFAULT_LANGUAGES
  /\ shares_default = TRUE
  /\ config_file = Absent
  /\ custom_file = Absent
(***************************************************************************)
(* analyze_file as a state machine, one line at a time.  The file is       *)
(* produced line by line: FetchLine is `the file has another line`,        *)
(* ScanReturn `the file has no further line`, so that total_lines, which   *)
(* the code sets to len(lines) before the loop and reads only in its       *)
(* return, counts the lines produced.                                      *)
(***************************************************************************)
\* the scanner's variables as the record ScanLine works on
ScanState ==
  [ in_block_comment |-> in_block_comment,
    block_comment_start |-> block_comment_start,
    block_comment_end |-> block_comment_end,
    empty_lines |-> empty_lines,
    comment_lines |-> comment_lines,
    code_lines |-> code_lines ]

\* a line strip() empties
IsBlank(l) == \A i \in DOMAIN l : l[i] \in Whitespace

InitScan ==
  /\ language_config \in ScanConfigs
  /\ total_lines = 0
  /\ line = None
  /\ empty_lines = ScanStart.empty_lines
  /\ comment_lines = ScanStart.comment_lines
  /\ code_lines = ScanStart.code_lines
  /\ in_block_comment = ScanStart.in_block_comment
  /\ block_comment_start = ScanStart.block_comment_start
  /\ block_comment_end = ScanStart.block_comment_end
  /\ both_lines = 0
  /\ nonblank_lines = 0
  /\ sc_pc = "loop"
  /\ ClassifyIdle
  /\ AppInit
  /\ CollectIdle
  /\ WorkersIdle
  /\ SnapshotIdle
  /\ UiIdle
  /\ ConfigIdle

\* `for line in lines`: the next line of the file
FetchLine ==
  /\ sc_pc = "loop"
  /\ total_lines < MaxLines
  /\ \E l \in LinesOf(language_config) :
       /\ line' = l
       /\ nonblank_lines' = IF IsBlank(l) THEN nonblank_lines
                                          ELSE nonblank_lines + 1
  /\ total_lines' = total_lines + 1
  /\ sc_pc' = "body"
  /\ UNCHANGED <<language_config, empty_lines, comment_lines, code_lines,
                 in_block_comment, block_comment_start, block_comment_end,
                 both_lines>>
  /\ UNCHANGED <<uiVars, configVars, snapshotVars, classifyVars, appVars, collectVars, workerVars>>

\* the loop's body on that line
ScanBody ==
  /\ sc_pc = "body"
  /\ LET st == ScanLine(ScanState, line, language_config)
     IN  /\ in_block_comment' = st.in_block_comment
         /\ block_comment_start' = st.block_comment_start
         /\ block_comment_end' = st.block_comment_end
         /\ empty_lines' = st.empty_lines
         /\ comment_lines' = st.comment_lines
         /\ code_lines' = st.code_lines
         /\ both_lines' = IF /\ st.comment_lines > comment_lines
                             /\ st.code_lines > code_lines
                          THEN both_lines + 1
                          ELSE both_lines
  /\ sc_pc' = "next"
  /\ UNCHANGED <<language_config, total_lines, line, nonblank_lines>>
  /\ UNCHANGED <<uiVars, configVars, snapshotVars, classifyVars, appVars, collectVars, workerVars>>

\* back to `for line in lines`: the line is not read again
NextLine ==
  /\ sc_pc = "next"
  /\ line' = None
  /\ sc_pc' = "loop"
  /\ UNCHANGED <<language_config, total_lines, empty_lines, comment_lines,
                 code_lines, in_block_comment, block_comment_start,
                 block_comment_end, both_lines, nonblank_lines>>
  /\ UNCHANGED <<uiVars, configVars, snapshotVars, classifyVars, appVars, collectVars, workerVars>>

\* `return {...}` after the last line
ScanReturn ==
  /\ sc_pc = "loop"
  /\ sc_pc' = "done"
  /\ UNCHANGED <<language_config, total_lines, line, empty_lines,
                 comment_lines, code_lines, in_block_comment,
                 block_comment_start, block_comment_end, both_lines,
                 nonblank_lines>>
  /\ UNCHANGED <<uiVars, configVars, snapshotVars, classifyVars, appVars, collectVars, workerVars>>

NextScan == FetchLine \/ ScanBody \/ NextLine \/ ScanReturn

SpecScan == InitScan /\ [][NextScan]_vars

(***************************************************************************)
(* get_language_from_extension, called on the rule tables the application  *)
(* can hold.                                                               *)
(***************************************************************************)
\* language_configs.update(other)
RECURSIVE DictUpdate(_, _)
DictUpdate(d, other) ==
  IF other = <<>>
  THEN d
  ELSE DictUpdate(DictSet(d, Head(other).key, Head(other).value), Tail(other))

\* a custom_languages.json: a language that shares an extension with Python
\* and has one of its own
CustomLanguages ==
  << [ key |-> "Notes",
       value |-> LanguageDict(<< <<".", "t", "x", "t">>, <<".", "p", "y">> >>,
                              PyStr(<<"#">>), <<>>, <<>>) ] >>

\* the "language_configs" of a code_counter_config.json: two languages that
\* share an extension, an extension in capitals, a language without the key
\* "extensions"
ConfigFileLanguages ==
  << [ key |-> "Scripts",
       value |-> LanguageDict(<< <<".", "s">>, <<".", "p", "y">> >>,
                              PyStr(<<"#">>), <<>>, <<>>) ],
     [ key |-> "Python",
       value |-> LanguageDict(<< <<".", "p", "y">>, <<".", "P", "Y", "c">> >>,
                              PyStr(<<"#">>), <<>>, <<>>) ],
     [ key |-> "Broken",
       value |-> [ LanguageDict(<< <<".", "c">> >>, PyStr(<<"#">>), <<>>, <<>>)
                     EXCEPT !.keys = {"single_line_comment"} ] ],
     [ key |-> "C",
       value |-> LanguageDict(<< <<".", "c">>, <<".", "h">> >>,
                              PyStr(<<"/", "/">>),
                              << << <<"/", "*">>, <<"*", "/">> >> >>, <<>>) ] >>

\* the paths classified: a directory part, the start of the file name, and
\* either nothing or a dot and at most MaxExtLen letters
ExtChars == {"p", "y", "P", "Y", "c"}

RECURSIVE Words(_, _)
Words(chars, n) ==
  IF n = 0
  THEN {<<>>}
  ELSE LET shorter == Words(chars, n - 1)
       IN  shorter \cup {w \o <<c>> : w \in shorter, c \in chars}

PathPrefixes == {<<>>, <<"d", "/">>, <<"d", ".", "c", "/">>}
PathStems == {<<>>, <<"m">>, <<"m", ".", "c">>}
PathTails == {<<>>} \cup {<<".">> \o w : w \in Words(ExtChars, MaxExtLen)}
Paths == {p \o s \o t : p \in PathPrefixes, s \in PathStems, t \in PathTails}

\* `self.language_configs = self.config.get("language_configs", DEFAULT_LANGUAGES)`
InitClassify ==
  /\ ScanIdle
  /\ ClassifyIdle
  /\ language_configs \in {DEFAULT_LANGUAGES, ConfigFileLanguages}
  /\ current_directory = <<>>
  /\ include_patterns = <<<<"*">>>>
  /\ exclude_patterns = <<>>
  /\ selected_languages = None
  /\ results = <<>>
  /\ after_queue = <<>>
  /\ CollectIdle
  /\ WorkersIdle
  /\ SnapshotIdle
  /\ UiIdle
  /\ ConfigIdle

\* load_custom_language_configs with a custom_languages.json, between two
\* calls of get_language_from_extension
LoadCustomLanguageConfigs ==
  /\ file_path = None
  /\ language_configs' = DictUpdate(language_configs, CustomLanguages)
  /\ UNCHANGED <<current_directory, include_patterns, exclude_patterns,
                 selected_languages, results, after_queue>>
  /\ UNCHANGED <<uiVars, configVars, snapshotVars, scanVars, classifyVars, collectVars, workerVars>>

\* one call of get_language_from_extension
Classify ==
  /\ file_path = None
  /\ \E path \in Paths :
       /\ file_path' = path
       /\ language' = GetLanguageFromExtension(path, language_configs)
  /\ UNCHANGED <<uiVars, configVars, snapshotVars, scanVars, appVars, collectVars, workerVars>>

\* its caller has taken the result
ClassifyReturn ==
  /\ file_path # None
  /\ file_path' = None
  /\ language' = ""
  /\ UNCHANGED <<uiVars, configVars, snapshotVars, scanVars, appVars, collectVars, workerVars>>

NextClassify == LoadCustomLanguageConfigs \/ Classify \/ ClassifyReturn

SpecClassify == InitClassify /\ [][NextClassify]_vars

(***************************************************************************)
(* collect_files as a state machine, one directory of os.walk at a time.   *)
(***************************************************************************)
\* the patterns of the lists: the wildcard, the empty pattern (a
\* code_counter_config.json can hold it) and three texts
PatternAtoms ==
  {<<"*">>, <<>>, <<"t", "e", "s", "t">>, <<".", "p", "y">>, <<"s", "r", "c">>}

RECURSIVE PatternLists(_)
PatternLists(n) ==
  IF n = 0
  THEN {<<>>}
  ELSE LET shorter == PatternLists(n - 1)
       IN  shorter \cup {Append(l, p) : l \in shorter, p \in PatternAtoms}

\* the directories collect_files is run on: the tree, a directory in it, a
\* hidden one, and one that does not exist
CollectRoots == {Dir_p, Dir_p_src, Dir_p_git, <<"q">>}

InitCollect ==
  /\ ScanIdle
  /\ ClassifyIdle
  /\ language_configs = DEFAULT_LANGUAGES
  /\ current_directory \in CollectRoots
  /\ include_patterns \in PatternLists(MaxPatterns)
  /\ exclude_patterns \in PatternLists(MaxPatterns)
  /\ selected_languages = None
  /\ results = <<>>
  /\ after_queue = <<>>
  /\ files = <<>>
  /\ walk_todo = <<current_directory>>
  /\ cf_pc = "walk"
  /\ WorkersIdle
  /\ SnapshotIdle
  /\ UiIdle
  /\ ConfigIdle

\* one iteration of `for root_dir, dirs, filenames in os.walk(...)`
CollectVisit ==
  /\ cf_pc = "walk"
  /\ walk_todo # <<>>
  /\ LET v == VisitDir(walk_todo, files, include_patterns, exclude_patterns)
     IN  /\ walk_todo' = v.todo
         /\ files' = v.files
  /\ UNCHANGED cf_pc
  /\ UNCHANGED <<uiVars, configVars, snapshotVars, scanVars, classifyVars, appVars, workerVars>>

\* `return files`
CollectReturn ==
  /\ cf_pc = "walk"
  /\ walk_todo = <<>>
  /\ cf_pc' = "done"
  /\ UNCHANGED <<files, walk_todo>>
  /\ UNCHANGED <<uiVars, configVars, snapshotVars, scanVars, classifyVars, appVars, workerVars>>

NextCollect == CollectVisit \/ CollectReturn

SpecCollect == InitCollect /\ [][NextCollect]_vars

(***************************************************************************)
(* start_analysis and the threads running analyze_directory.  A thread     *)
(* takes one step per statement of analyze_directory that reads or writes  *)
(* an attribute of the application; the main loop of Tk runs the callbacks *)
(* handed to root.after, one at a time.                                    *)
(***************************************************************************)
\* `if i % 10 == 0`
ProgressEvery == 10

\* the directories the user chooses
DirectoryChoices == {Dir_p, Dir_p_src}
\* the texts in the include and in the exclude entry
IncludeTexts == {Text_Star, Text_PyC, Text_Empty}
ExcludeTexts == {Text_Empty, Text_TestGit, Text_Src}

\* the check boxes ticked, in the order of self.lang_vars: all of them, all
\* but Python's, only the one of C/C++
Selections(language_configs_) ==
  LET all == Keys(language_configs_)
  IN  { all,
        SelectSeq(all, LAMBDA lang : lang # "Python"),
        SelectSeq(all, LAMBDA lang : lang = "C/C++") }

\* the thread is inside analyze_directory
Running(w) == worker[w].pc \notin {"idle", "done"}

\* the file a thread is at
FilePath(w) == worker[w].files[worker[w].i + 1]

\* `self.language_configs = self.config.get(...)` and
\* load_custom_language_configs, with and without a custom_languages.json
InitWorker ==
  /\ ScanIdle
  /\ ClassifyIdle
  /\ language_configs \in
       {DEFAULT_LANGUAGES, DictUpdate(DEFAULT_LANGUAGES, CustomLanguages)}
  /\ current_directory = <<>>
  /\ include_patterns = <<<<"*">>>>
  /\ exclude_patterns = <<>>
  /\ selected_languages = None
  /\ results = <<>>
  /\ after_queue = <<>>
  /\ CollectIdle
  /\ WorkersIdle
  /\ SnapshotIdle
  /\ UiIdle
  /\ ConfigIdle

\* select_directory, with a directory chosen in the dialog
SelectDirectory ==
  /\ \E directory \in DirectoryChoices : current_directory' = directory
  /\ UNCHANGED <<language_configs, include_patterns, exclude_patterns,
                 selected_languages, results, after_queue>>
  /\ UNCHANGED <<uiVars, configVars, snapshotVars, scanVars, classifyVars, collectVars, workerVars>>

\* start_analysis with the texts of the two entries and the check boxes
\* given: update_config_from_ui, `self.results = {}`, and a new thread w
StartAnalysisWith(w, include_text, exclude_text, selection) ==
  /\ current_directory # <<>>
  /\ ~Running(w)
  /\ include_patterns' = PatternsOf(include_text)
  /\ exclude_patterns' = PatternsOf(exclude_text)
  /\ selected_languages' = selection
  /\ results' = <<>>
  /\ worker' = [worker EXCEPT ![w] = [IdleWorker EXCEPT !.pc = "collect"]]
  /\ scan_workers' = {w} \cup {v \in DOMAIN worker : Running(v)}
  /\ stopped' = FALSE
  /\ started' = [started EXCEPT ![w] =
                   << [ language_configs |-> language_configs,
                        current_directory |-> current_directory,
                        include_patterns |-> include_patterns',
                        exclude_patterns |-> exclude_patterns',
                        selected_languages |-> selected_languages' ] >>]
  /\ UNCHANGED <<language_configs, current_directory, after_queue>>
  /\ UNCHANGED <<uiVars, configVars, snapshotVars, scanVars, classifyVars, collectVars>>

\* start_analysis
StartAnalysis(w) ==
  \E include_text \in IncludeTexts, exclude_text \in ExcludeTexts,
     selection \in Selections(language_configs) :
    StartAnalysisWith(w, include_text, exclude_text, selection)

\* `files = self.collect_files()`
WorkerCollectFiles(w) ==
  /\ worker[w].pc = "collect"
  /\ worker' = [worker EXCEPT
       ![w].files = CollectFiles(current_directory, include_patterns,
                                 exclude_patterns),
       ![w].i = 0,
       ![w].pc = "for"]
  /\ UNCHANGED <<scan_workers, stopped, started>>
  /\ UNCHANGED <<uiVars, configVars, snapshotVars, scanVars, classifyVars, appVars, collectVars>>

\* the head of `for i, file_path in enumerate(files)`: the language of the
\* next file, and `continue` for a language that is not selected
WorkerClassify(w) ==
  /\ worker[w].pc = "for"
  /\ worker[w].i < Len(worker[w].files)
  /\ LET lang == GetLanguageFromExtension(FilePath(w), language_configs)
     IN  worker' =
           IF SkipsLanguage(lang, selected_languages)
           THEN [worker EXCEPT ![w].language = lang, ![w].i = @ + 1]
           ELSE [worker EXCEPT ![w].language = lang, ![w].pc = "analyze"]
  /\ UNCHANGED <<scan_workers, stopped, started>>
  /\ UNCHANGED <<uiVars, configVars, snapshotVars, scanVars, classifyVars, appVars, collectVars>>

\* `result = CodeAnalyzer.analyze_file(file_path,
\*                                     self.language_configs.get(language, {}))`
\* and `if result:`
WorkerAnalyzeFile(w) ==
  /\ worker[w].pc = "analyze"
  /\ LET result == AnalyzeFile(FilePath(w),
                               DictValueOr(language_configs,
                                           worker[w].language, EmptyDict))
     IN  worker' = [worker EXCEPT
           ![w].result = result,
           ![w].pc = IF result = <<>> THEN "progress" ELSE "create"]
  /\ UNCHANGED <<scan_workers, stopped, started>>
  /\ UNCHANGED <<uiVars, configVars, snapshotVars, scanVars, classifyVars, appVars, collectVars>>

\* a statement of the loop's body that changes self.results: to is what
\* self.results becomes; a KeyError of self.results[language] is caught by
\* `except Exception`, which hands two callbacks to root.after and ends the
\* thread
WorkerUpdate(w, from, next, to) ==
  /\ worker[w].pc = from
  /\ IF DictHas(results, worker[w].language) \/ from = "create"
     THEN /\ results' = to
          /\ worker' = [worker EXCEPT ![w].pc = next]
          /\ UNCHANGED after_queue
     ELSE /\ Len(after_queue) + 2 <= MaxPending
          /\ after_queue' = after_queue \o <<"showerror", "stop_progress">>
          /\ worker' = [worker EXCEPT ![w].pc = "done"]
          /\ UNCHANGED results
  /\ UNCHANGED <<scan_workers, stopped, started>>
  /\ UNCHANGED <<language_configs, current_directory, include_patterns,
                 exclude_patterns, selected_languages>>
  /\ UNCHANGED <<uiVars, configVars, snapshotVars, scanVars, classifyVars, collectVars>>

\* `if language not in self.results: self.results[language] = {...}`
WorkerCreateAggregate(w) ==
  WorkerUpdate(w, "create", "append",
               CreateAggregate(results, worker[w].language))

\* `self.results[language]["files"].append(result)`
WorkerAppendFile(w) ==
  WorkerUpdate(w, "append", "add_total",
               AppendFile(results, worker[w].language, worker[w].result[1]))

\* `self.results[language]["total_lines"] += result["total_lines"]`
WorkerAddTotalLines(w) ==
  WorkerUpdate(w, "add_total", "add_code",
               AddTotalLines(results, worker[w].language, worker[w].result[1]))

\* `self.results[language]["code_lines"] += result["code_lines"]`
WorkerAddCodeLines(w) ==
  WorkerUpdate(w, "add_code", "add_comment",
               AddCodeLines(results, worker[w].language, worker[w].result[1]))

\* `self.results[language]["comment_lines"] += result["comment_lines"]`
WorkerAddCommentLines(w) ==
  WorkerUpdate(w, "add_comment", "add_empty",
               AddCommentLines(results, worker[w].language,
                               worker[w].result[1]))

\* `self.results[language]["empty_lines"] += result["empty_lines"]`
WorkerAddEmptyLines(w) ==
  WorkerUpdate(w, "add_empty", "progress",
               AddEmptyLines(results, worker[w].language, worker[w].result[1]))

\* `if i % 10 == 0: self.root.after(0, self.update_results_ui)`, and on to
\* the next file
WorkerProgress(w) ==
  /\ worker[w].pc = "progress"
  /\ IF worker[w].i % ProgressEvery = 0
     THEN /\ Len(after_queue) < MaxPending
          /\ after_queue' = Append(after_queue, "update_results_ui")
     ELSE UNCHANGED after_queue
  /\ worker' = [worker EXCEPT ![w].i = @ + 1, ![w].pc = "for"]
  /\ UNCHANGED <<scan_workers, stopped, started>>
  /\ UNCHANGED <<language_configs, current_directory, include_patterns,
                 exclude_patterns, selected_languages, results>>
  /\ UNCHANGED <<uiVars, configVars, snapshotVars, scanVars, classifyVars, collectVars>>

\* `self.root.after(0, self.finish_analysis)` after the last file
WorkerFinish(w) ==
  /\ worker[w].pc = "for"
  /\ worker[w].i = Len(worker[w].files)
  /\ Len(after_queue) < MaxPending
  /\ after_queue' = Append(after_queue, "finish_analysis")
  /\ worker' = [worker EXCEPT ![w].pc = "done"]
  /\ UNCHANGED <<scan_workers, stopped, started>>
  /\ UNCHANGED <<language_configs, current_directory, include_patterns,
                 exclude_patterns, selected_languages, results>>
  /\ UNCHANGED <<uiVars, configVars, snapshotVars, scanVars, classifyVars, collectVars>>

\* the main loop runs the callback root.after has held longest; what it
\* draws is not part of the state
RunCallback ==
  /\ after_queue # <<>>
  /\ after_queue' = Tail(after_queue)
  /\ UNCHANGED <<language_configs, current_directory, include_patterns,
                 exclude_patterns, selected_languages, results>>
  /\ UNCHANGED <<uiVars, configVars, snapshotVars, scanVars, classifyVars, collectVars, workerVars>>

NextWorker ==
  \/ SelectDirectory
  \/ \E w \in Workers : StartAnalysis(w)
  \/ \E w \in Workers : WorkerCollectFiles(w)
  \/ \E w \in Workers : WorkerClassify(w)
  \/ \E w \in Workers : WorkerAnalyzeFile(w)
  \/ \E w \in Workers : WorkerCreateAggregate(w)
  \/ \E w \in Workers : WorkerAppendFile(w)
  \/ \E w \in Workers : WorkerAddTotalLines(w)
  \/ \E w \in Workers : WorkerAddCodeLines(w)
  \/ \E w \in Workers : WorkerAddCommentLines(w)
  \/ \E w \in Workers : WorkerAddEmptyLines(w)
  \/ \E w \in Workers : WorkerProgress(w)
  \/ \E w \in Workers : WorkerFinish(w)
  \/ RunCallback

SpecWorker == InitWorker /\ [][NextWorker]_vars

(***************************************************************************)
(* export_results, import_results and compare_results, run by the main     *)
(* loop while no thread of analyze_directory runs.                         *)
(***************************************************************************)
\* analyze_directory from its first statement to its last, on its own
RECURSIVE AnalyzeFiles(_, _, _, _)
AnalyzeFiles(files_, language_configs_, selected_languages_, results_) ==
  IF files_ = <<>>
  THEN results_
  ELSE LET lang == GetLanguageFromExtension(Head(files_), language_configs_)
           result == AnalyzeFile(Head(files_),
                                 DictValueOr(language_configs_, lang,
                                             EmptyDict))
       IN  IF SkipsLanguage(lang, selected_languages_) \/ result = <<>>
           THEN AnalyzeFiles(Tail(files_), language_configs_,
                             selected_languages_, results_)
           ELSE AnalyzeFiles(
                  Tail(files_), language_configs_, selected_languages_,
                  AddEmptyLines(
                    AddCommentLines(
                      AddCodeLines(
                        AddTotalLines(
                          AppendFile(CreateAggregate(results_, lang),
                                     lang, result[1]),
                          lang, result[1]),
                        lang, result[1]),
                      lang, result[1]),
                    lang, result[1]))

AnalyzeDirectory(directory, language_configs_, include_patterns_, exclude_patterns_, selected_languages_) ==
  AnalyzeFiles(CollectFiles(directory, include_patterns_, exclude_patterns_),
               language_configs_, selected_languages_, <<>>)

\* datetime.now().isoformat()
Timestamps == {"2024-05-01T10:00:00"}

\* a document export_results wrote in an earlier session, for p/src
EarlierExport ==
  DumpExportData(Dir_p_src, "2024-04-30T09:00:00",
                 AnalyzeDirectory(Dir_p_src, DEFAULT_LANGUAGES,
                                  <<<<"*">>>>, <<>>, Keys(DEFAULT_LANGUAGES)),
                 <<<<"*">>>>, <<>>, Keys(DEFAULT_LANGUAGES))

\* a file record of a document written by hand
HandFile(name, total, empty, comment, code) ==
  JObj(<< JMember("total_lines", JNum(total)),
          JMember("empty_lines", JNum(empty)),
          JMember("comment_lines", JNum(comment)),
          JMember("code_lines", JNum(code)),
          JMember("file_path", JText(name)) >>)

\* a document written by hand: "awk" comes before "C#" and has no
\* "code_lines", "comment_lines" and "empty_lines"
HandWritten ==
  JObj(<< JMember("results",
            JObj(<< JMember("awk",
                      JObj(<< JMember("files",
                                JArr(<< HandFile(<<"s", ".", "a", "w", "k">>,
                                                 12, 1, 1, 10) >>)),
                              JMember("total_lines", JNum(12)) >>)),
                    JMember("C#",
                      JObj(<< JMember("files",
                                JArr(<< HandFile(<<"a", ".", "c", "s">>,
                                                 3, 1, 1, 1),
                                        HandFile(<<"b", ".", "c", "s">>,
                                                 4, 0, 0, 4) >>)),
                              JMember("total_lines", JNum(7)),
                              JMember("code_lines", JNum(5)),
                              JMember("comment_lines", JNum(1)),
                              JMember("empty_lines", JNum(1)) >>)),
                    JMember("Python",
                      JObj(<< JMember("files", JArr(<<>>)),
                              JMember("total_lines", JNum(0)),
                              JMember("code_lines", JNum(0)),
                              JMember("comment_lines", JNum(0)),
                              JMember("empty_lines", JNum(0)) >>)) >>)) >>)

\* a document without "results"
WithoutResults == JObj(<< JMember("directory", JText(<<"p">>)) >>)

\* a document with an aggregate that has no "total_lines"
WithoutTotalLines ==
  JObj(<< JMember("results",
            JObj(<< JMember("C/C++",
                      JObj(<< JMember("files", JArr(<<>>)),
                              JMember("code_lines", JNum(0)) >>)) >>)) >>)

\* what the files hold when the session starts
PreparedFiles ==
  { NoFile, InvalidFile, JsonFile(EarlierExport), JsonFile(HandWritten),
    JsonFile(WithoutResults), JsonFile(WithoutTotalLines) }

\* the session starts ...
InitSnapshot ==
  /\ ScanIdle
  /\ ClassifyIdle
  /\ CollectIdle
  /\ WorkersIdle
  /\ language_configs = DEFAULT_LANGUAGES
  /\ after_queue = <<>>
     \* ... with no scan started ...
  /\ \/ /\ current_directory = <<>>
        /\ include_patterns = <<<<"*">>>>
        /\ exclude_patterns = <<>>
        /\ selected_languages = None
        /\ results = <<>>
     \* ... or with a scan finished
     \/ \E directory \in DirectoryChoices,
           exclude_text \in {Text_Empty, Text_TestGit} :
          /\ current_directory = directory
          /\ include_patterns = PatternsOf(Text_Star)
          /\ exclude_patterns = PatternsOf(exclude_text)
          /\ selected_languages \in Selections(language_configs)
          /\ results = AnalyzeDirectory(directory, language_configs,
                                        include_patterns, exclude_patterns,
                                        selected_languages)
  /\ disk \in [SnapshotPaths -> PreparedFiles]
  /\ compare_text = NoText
  /\ last_op = NoOp
  /\ exported = [path \in SnapshotPaths |-> <<>>]
  /\ UiIdle
  /\ ConfigIdle

\* open(file_path) or json.load(f) raises
LoadRaises(file) == ~file.exists \/ ~file.valid

\* update_results_ui or update_detail_text raises KeyError
UiRaises(results_) ==
  \E n \in DOMAIN results_ :
    \/ Range(AggregateKeys) \ DOMAIN results_[n].value # {}
    \/ \E k \in DOMAIN results_[n].value.files :
         Range(FileKeys) \ DOMAIN results_[n].value.files[k] # {}

\* export_results, with a path chosen in the dialog
ExportResults(path) ==
  IF results = <<>>
  THEN \* `if not self.results:` showwarning and return
       /\ last_op' = [op |-> "export", paths |-> <<>>, dialog |-> "showwarning"]
       /\ UNCHANGED <<disk, exported>>
  ELSE IF selected_languages = None
  THEN \* self.selected_languages raises AttributeError before open()
       /\ last_op' = [op |-> "export", paths |-> <<path>>,
                      dialog |-> "showerror"]
       /\ UNCHANGED <<disk, exported>>
  ELSE /\ \E timestamp \in Timestamps :
            disk' = [disk EXCEPT ![path] =
                       JsonFile(DumpExportData(current_directory, timestamp,
                                               results, include_patterns,
                                               exclude_patterns,
                                               selected_languages))]
       /\ exported' = [exported EXCEPT ![path] = <<results>>]
       /\ last_op' = [op |-> "export", paths |-> <<path>>,
                      dialog |-> "showinfo"]

Export ==
  /\ \E path \in SnapshotPaths : ExportResults(path)
  /\ UNCHANGED compare_text
  /\ UNCHANGED <<uiVars, configVars>>
  /\ UNCHANGED <<scanVars, classifyVars, appVars, collectVars, workerVars>>

\* import_results, with a path chosen in the dialog
ImportResults(path) ==
  IF LoadRaises(disk[path])
  THEN /\ last_op' = [op |-> "import", paths |-> <<path>>,
                      dialog |-> "showerror"]
       /\ UNCHANGED results
  ELSE LET import_data == LoadDocument(disk[path].json)
       IN  \* `self.results = import_data.get("results", {})`, and the two
           \* updates of the widgets inside the same try
           /\ results' = ResultsOf(import_data)
           /\ last_op' = [op |-> "import", paths |-> <<path>>,
                          dialog |-> IF UiRaises(ResultsOf(import_data))
                                     THEN "showerror" ELSE "showinfo"]

Import ==
  /\ \E path \in SnapshotPaths : ImportResults(path)
  /\ UNCHANGED <<disk, compare_text, exported>>
  /\ UNCHANGED <<language_configs, current_directory, include_patterns,
                 exclude_patterns, selected_languages, after_queue>>
  /\ UNCHANGED <<uiVars, configVars>>
  /\ UNCHANGED <<scanVars, classifyVars, collectVars, workerVars>>

\* compare_results, with two paths chosen in its dialogs
CompareResults(file1, file2) ==
  IF LoadRaises(disk[file1]) \/ LoadRaises(disk[file2])
  THEN /\ last_op' = [op |-> "compare", paths |-> <<file1, file2>>,
                      dialog |-> "showerror"]
       /\ UNCHANGED compare_text
  ELSE LET compared == PerformComparison(LoadDocument(disk[file1].json),
                                         LoadDocument(disk[file2].json))
       IN  /\ compare_text' = compared.text
           /\ last_op' = [op |-> "compare", paths |-> <<file1, file2>>,
                          dialog |-> IF compared.raised
                                     THEN "showerror" ELSE "none"]

Compare ==
  /\ \E file1 \in SnapshotPaths, file2 \in SnapshotPaths :
       CompareResults(file1, file2)
  /\ UNCHANGED <<disk, exported>>
  /\ UNCHANGED <<uiVars, configVars>>
  /\ UNCHANGED <<scanVars, classifyVars, appVars, collectVars, workerVars>>

NextSnapshot == Export \/ Import \/ Compare

SpecSnapshot == InitSnapshot /\ [][NextSnapshot]_vars

(***************************************************************************)
(* A session: stop_analysis, reload_config and the saving of a custom      *)
(* language run in the main loop between the statements of a thread of     *)
(* analyze_directory.  stop_analysis sets nothing the thread reads, and    *)
(* the thread reads the attributes of the application at each file.        *)
(***************************************************************************)
\* the directory chosen, and the texts of the entries at each start_analysis:
\* they leave p/b.c and p/notes.txt
SessionDirectory == Dir_p
SessionInclude == <<".", "c", ",", " ", ".", "t", "x", "t">>
SessionExclude == Text_Src

\* a directory is chosen and no thread runs yet
InitSession ==
  /\ ScanIdle
  /\ ClassifyIdle
  /\ language_configs = DEFAULT_LANGUAGES
  /\ current_directory = SessionDirectory
  /\ include_patterns = <<<<"*">>>>
  /\ exclude_patterns = <<>>
  /\ selected_languages = None
  /\ results = <<>>
  /\ after_queue = <<>>
  /\ CollectIdle
  /\ WorkersIdle
  /\ SnapshotIdle
  /\ UiIdle
  /\ ConfigIdle

\* start_analysis with every check box ticked, once in the session
SessionStart(w) ==
  /\ started[w] = <<>>
  /\ StartAnalysisWith(w, SessionInclude, SessionExclude,
                       Keys(language_configs))

\* stop_analysis: the status label and the progress bar
StopAnalysis ==
  /\ \E w \in Workers : Running(w)
  /\ stopped' = TRUE
  /\ UNCHANGED <<worker, scan_workers, started>>
  /\ UNCHANGED <<uiVars, configVars, snapshotVars, scanVars, classifyVars, appVars, collectVars>>

\* save_custom_config of the custom language dialog: the text is written to
\* custom_languages.json and load_custom_language_configs reads it
SaveCustomConfig ==
  /\ language_configs' = DictUpdate(language_configs, CustomLanguages)
  /\ UNCHANGED <<current_directory, include_patterns, exclude_patterns,
                 selected_languages, results, after_queue>>
  /\ UNCHANGED <<uiVars, configVars, snapshotVars, scanVars, classifyVars, collectVars, workerVars>>

\* reload_config: the rule table of the configuration file, or the built-in
\* one when the file has none, then load_custom_language_configs, which finds
\* a custom_languages.json once save_custom_config has written it; the
\* patterns of the file, which are those the last start_analysis saved, or
\* the defaults when the file has none
ReloadConfig ==
  /\ \E table \in {DEFAULT_LANGUAGES, ConfigFileLanguages} :
       language_configs' =
         DictUpdate(table, IF DictHas(language_configs, "Notes")
                           THEN CustomLanguages ELSE <<>>)
  /\ \/ UNCHANGED <<include_patterns, exclude_patterns>>
     \/ /\ include_patterns' = <<<<"*">>>>
        /\ exclude_patterns' = <<>>
  /\ UNCHANGED <<current_directory, selected_languages, results, after_queue>>
  /\ UNCHANGED <<uiVars, configVars, snapshotVars, scanVars, classifyVars, collectVars, workerVars>>

NextSession ==
  \/ \E w \in Workers : SessionStart(w)
  \/ StopAnalysis
  \/ SaveCustomConfig
  \/ ReloadConfig
  \/ \E w \in Workers : WorkerCollectFiles(w)
  \/ \E w \in Workers : WorkerClassify(w)
  \/ \E w \in Workers : WorkerAnalyzeFile(w)
  \/ \E w \in Workers : WorkerCreateAggregate(w)
  \/ \E w \in Workers : WorkerAppendFile(w)
  \/ \E w \in Workers : WorkerAddTotalLines(w)
  \/ \E w \in Workers : WorkerAddCodeLines(w)
  \/ \E w \in Workers : WorkerAddCommentLines(w)
  \/ \E w \in Workers : WorkerAddEmptyLines(w)
  \/ \E w \in Workers : WorkerProgress(w)
  \/ \E w \in Workers : WorkerFinish(w)
  \/ RunCallback

SpecSession == InitSession /\ [][NextSession]_vars

(***************************************************************************)
(* start_analysis while a thread runs: it looks at no thread, sets         *)
(* self.results to a new dict and starts another thread.                   *)
(***************************************************************************)
\* the threads start_analysis creates, in the order it creates them; a
\* thread is started once
Threads == 1..MaxThreads

InitRestart ==
  /\ ScanIdle
  /\ ClassifyIdle
  /\ language_configs = DEFAULT_LANGUAGES
  /\ current_directory = SessionDirectory
  /\ include_patterns = <<<<"*">>>>
  /\ exclude_patterns = <<>>
  /\ selected_languages = None
  /\ results = <<>>
  /\ after_queue = <<>>
  /\ CollectIdle
  /\ worker = [w \in Threads |-> IdleWorker]
  /\ scan_workers = {}
  /\ stopped = FALSE
  /\ started = [w \in Threads |-> <<>>]
  /\ SnapshotIdle
  /\ UiIdle
  /\ ConfigIdle

\* start_analysis with a new thread w
Restart(w) ==
  /\ started[w] = <<>>
  /\ \A v \in 1..(w - 1) : started[v] # <<>>
  /\ \E exclude_text \in {SessionExclude, Text_Empty} :
       StartAnalysisWith(w, SessionInclude, exclude_text,
                         Keys(language_configs))

NextRestart ==
  \/ \E w \in Threads : Restart(w)
  \/ \E w \in Threads : WorkerCollectFiles(w)
  \/ \E w \in Threads : WorkerClassify(w)
  \/ \E w \in Threads : WorkerAnalyzeFile(w)
  \/ \E w \in Threads : WorkerCreateAggregate(w)
  \/ \E w \in Threads : WorkerAppendFile(w)
  \/ \E w \in Threads : WorkerAddTotalLines(w)
  \/ \E w \in Threads : WorkerAddCodeLines(w)
  \/ \E w \in Threads : WorkerAddCommentLines(w)
  \/ \E w \in Threads : WorkerAddEmptyLines(w)
  \/ \E w \in Threads : WorkerProgress(w)
  \/ \E w \in Threads : WorkerFinish(w)
  \/ RunCallback

SpecRestart == InitRestart /\ [][NextRestart]_vars

(***************************************************************************)
(* update_results_ui in the main loop while a thread of                    *)
(* analyze_directory runs.  Neither takes a lock: the thread can run any   *)
(* of its statements between two reads of update_results_ui.  The          *)
(* iterator of `for language, data in self.results.items()` raises         *)
(* RuntimeError at the next() that finds the dict with another number of   *)
(* keys than it had when the iterator was made.                            *)
(***************************************************************************)
\* the callbacks that run update_results_ui
DrawingCallbacks == {"update_results_ui", "finish_analysis"}

\* the main loop takes the callback root.after has held longest; for
\* update_results_ui, and for finish_analysis, which calls it first, the
\* rows of the tree are deleted and the iterator is made
CallbackBegin ==
  /\ ui.pc = "idle"
  /\ after_queue # <<>>
  /\ after_queue' = Tail(after_queue)
  /\ IF Head(after_queue) \in DrawingCallbacks
     THEN /\ tree' = <<>>
          /\ ui' = [ pc |-> "next", used |-> Len(results), i |-> 0,
                     row |-> <<>>, error |-> "none",
                     scanning |-> \E w \in DOMAIN worker : Running(w) ]
     ELSE UNCHANGED <<tree, ui>>
  /\ UNCHANGED <<language_configs, current_directory, include_patterns,
                 exclude_patterns, selected_languages, results>>
  /\ UNCHANGED <<configVars, snapshotVars, scanVars, classifyVars, collectVars,
                 workerVars>>

\* next() of the iterator: RuntimeError, or the next language, or the end
\* of the loop and the summary label
UiNext ==
  /\ ui.pc = "next"
  /\ ui' = IF Len(results) # ui.used
           THEN [ui EXCEPT !.pc = "idle", !.error = "RuntimeError"]
           ELSE IF ui.i < Len(results)
           THEN [ui EXCEPT !.pc = "file_count", !.i = @ + 1,
                           !.row = [language |-> results[ui.i + 1].key]]
           ELSE [ui EXCEPT !.pc = "idle"]
  /\ UNCHANGED tree
  /\ UNCHANGED <<configVars, snapshotVars, scanVars, classifyVars, appVars,
                 collectVars, workerVars>>

\* what one statement of the loop's body reads of the aggregate `data`
ReadOf(data, pc) == IF pc = "file_count" THEN Len(data.files) ELSE data[pc]

\* the name the value read is kept under
NamedAs(pc) == IF pc = "file_count" THEN "files" ELSE pc

\* a record with one more field
With(record, name, value) ==
  [k \in DOMAIN record \cup {name} |-> IF k = name THEN value ELSE record[k]]

\* one of `file_count = len(data["files"])`, `total_lines_lang =
\* data["total_lines"]` and the three statements after them; the last is
\* followed by self.tree.insert
UiRead(pc, next) ==
  /\ ui.pc = pc
  /\ LET row == With(ui.row, NamedAs(pc), ReadOf(results[ui.i].value, pc))
     IN  IF next = "next"
         THEN /\ tree' = Append(tree, row)
              /\ ui' = [ui EXCEPT !.pc = next, !.row = <<>>]
         ELSE /\ ui' = [ui EXCEPT !.pc = next, !.row = row]
              /\ UNCHANGED tree
  /\ UNCHANGED <<configVars, snapshotVars, scanVars, classifyVars, appVars,
                 collectVars, workerVars>>

\* a directory is chosen, no thread runs yet and nothing is drawn
InitProgress ==
  /\ InitSession
  /\ ui.pc = "idle"

NextProgress ==
  \/ \E w \in Workers : SessionStart(w)
  \/ \E w \in Workers : WorkerCollectFiles(w)
  \/ \E w \in Workers : WorkerClassify(w)
  \/ \E w \in Workers : WorkerAnalyzeFile(w)
  \/ \E w \in Workers : WorkerCreateAggregate(w)
  \/ \E w \in Workers : WorkerAppendFile(w)
  \/ \E w \in Workers : WorkerAddTotalLines(w)
  \/ \E w \in Workers : WorkerAddCodeLines(w)
  \/ \E w \in Workers : WorkerAddCommentLines(w)
  \/ \E w \in Workers : WorkerAddEmptyLines(w)
  \/ \E w \in Workers : WorkerProgress(w)
  \/ \E w \in Workers : WorkerFinish(w)
  \/ CallbackBegin
  \/ UiNext
  \/ UiRead("file_count", "total_lines")
  \/ UiRead("total_lines", "code_lines")
  \/ UiRead("code_lines", "comment_lines")
  \/ UiRead("comment_lines", "empty_lines")
  \/ UiRead("empty_lines", "next")

SpecProgress == InitProgress /\ [][NextProgress]_vars

(***************************************************************************)
(* The rule tables as dicts that are shared.  `self.config.get(            *)
(* "language_configs", CodeAnalyzer.DEFAULT_LANGUAGES)` gives the dict of  *)
(* the class itself when the configuration has no table, and so does       *)
(* get_default_config; `update` and the assignment of a key then change    *)
(* the dict of the class.  No scan is started: the patterns stay as        *)
(* __init__ sets them.                                                     *)
(***************************************************************************)
\* a file that is not JSON
BrokenJson ==
  [exists |-> TRUE, valid |-> FALSE, has_table |-> FALSE, table |-> <<>>]
\* a code_counter_config.json without "language_configs"
WithoutTable ==
  [exists |-> TRUE, valid |-> TRUE, has_table |-> FALSE, table |-> <<>>]
\* a code_counter_config.json with this "language_configs", or a
\* custom_languages.json with these languages
WithTable(table) ==
  [exists |-> TRUE, valid |-> TRUE, has_table |-> TRUE, table |-> table]

\* another custom_languages.json: Python with another extension
OtherCustomLanguages ==
  << [ key |-> "Python",
       value |-> LanguageDict(<< <<".", "p">> >>, PyStr(<<"#">>), <<>>,
                              <<>>) ] >>

\* what the add-language dialog is filled with: the name, and the texts of
\* the extensions and of the comment symbols
NewLanguages ==
  { [name |-> "Mk", extensions |-> <<".", "m", "k">>, comments |-> <<"#">>],
    [name |-> "C/C++", extensions |-> <<".", "c", ",", ".", "i">>,
     comments |-> <<"/", "/", ",", "#">>] }

\* load_config and `self.config.get("language_configs",
\* CodeAnalyzer.DEFAULT_LANGUAGES)`: the table self.language_configs is bound
\* to, and whether it is the dict of the class
LoadConfig(file, builtin) ==
  IF file.exists /\ file.valid /\ file.has_table
  THEN [table |-> file.table, shared |-> FALSE]
  ELSE [table |-> builtin, shared |-> TRUE]

\* load_custom_language_configs on a table: `self.language_configs.update(
\* custom_configs)` if custom_languages.json can be read
LoadCustomInPlace(table, file) ==
  IF file.exists /\ file.valid THEN DictUpdate(table, file.table) ELSE table

\* __init__, and reload_config, from the binding of self.language_configs
\* on: the table, whether it is the dict of the class, and what the dict of
\* the class holds afterwards
Bind(config, custom, builtin) ==
  LET loaded == LoadConfig(config, builtin)
      table == LoadCustomInPlace(loaded.table, custom)
  IN  [ language_configs |-> table,
        shares_default |-> loaded.shared,
        default_languages |-> IF loaded.shared THEN table ELSE builtin ]

\* the application after __init__, for each code_counter_config.json and
\* custom_languages.json it can find
InitConfig ==
  /\ ScanIdle
  /\ ClassifyIdle
  /\ CollectIdle
  /\ WorkersIdle
  /\ SnapshotIdle
  /\ UiIdle
  /\ config_file \in
       {Absent, BrokenJson, WithoutTable, WithTable(ConfigFileLanguages)}
  /\ custom_file \in {Absent, BrokenJson, WithTable(CustomLanguages)}
  /\ LET bound == Bind(config_file, custom_file, DEFAULT_LANGUAGES)
     IN  /\ language_configs = bound.language_configs
         /\ shares_default = bound.shares_default
         /\ default_languages = bound.default_languages
  /\ current_directory = <<>>
  /\ include_patterns = <<<<"*">>>>
  /\ exclude_patterns = <<>>
  /\ selected_languages = None
  /\ results = <<>>
  /\ after_queue = <<>>

\* reload_config
ReloadConfigInPlace ==
  /\ LET bound == Bind(config_file, custom_file, default_languages)
     IN  /\ language_configs' = bound.language_configs
         /\ shares_default' = bound.shares_default
         /\ default_languages' = bound.default_languages
  /\ include_patterns' = <<<<"*">>>>
  /\ exclude_patterns' = <<>>
  /\ UNCHANGED <<config_file, custom_file>>
  /\ UNCHANGED <<current_directory, selected_languages, results, after_queue>>
  /\ UNCHANGED <<uiVars, snapshotVars, scanVars, classifyVars, collectVars,
                 workerVars>>

\* save_custom_config of the custom language dialog, with a JSON text in
\* the editor: the text is written to custom_languages.json and
\* load_custom_language_configs reads it
SaveCustomConfigInPlace ==
  /\ \E custom \in {CustomLanguages, OtherCustomLanguages} :
       /\ custom_file' = WithTable(custom)
       /\ language_configs' = LoadCustomInPlace(language_configs, custom_file')
  /\ default_languages' =
       IF shares_default THEN language_configs' ELSE default_languages
  /\ UNCHANGED <<shares_default, config_file>>
  /\ UNCHANGED <<current_directory, include_patterns, exclude_patterns,
                 selected_languages, results, after_queue>>
  /\ UNCHANGED <<uiVars, snapshotVars, scanVars, classifyVars, collectVars,
                 workerVars>>

\* `"single_line_comment": comments[0] if len(comments) == 1 else comments`
CommentsOf(comments) ==
  IF Len(comments) = 1 THEN PyStr(comments[1]) ELSE PyList(comments)

\* save_new_language of the settings window, with a name in the entry:
\* `self.language_configs[name] = {...}`, then
\* `self.config["language_configs"] = self.language_configs` and save_config
SaveNewLanguage ==
  /\ \E new \in NewLanguages :
       language_configs' =
         DictSet(language_configs, new.name,
                 LanguageDict(PatternsOf(new.extensions),
                              CommentsOf(PatternsOf(new.comments)),
                              <<>>, <<"\"", "'">>))
  /\ default_languages' =
       IF shares_default THEN language_configs' ELSE default_languages
  /\ config_file' = WithTable(language_configs')
  /\ UNCHANGED <<shares_default, custom_file>>
  /\ UNCHANGED <<current_directory, include_patterns, exclude_patterns,
                 selected_languages, results, after_queue>>
  /\ UNCHANGED <<uiVars, snapshotVars, scanVars, classifyVars, collectVars,
                 workerVars>>

NextConfig == ReloadConfigInPlace \/ SaveCustomConfigInPlace \/ SaveNewLanguage

SpecConfig == InitConfig /\ [][NextConfig]_vars

(***************************************************************************)
(* Claims C1 to C6: the line scanner, under SpecScan.                      *)
(***************************************************************************)
\* the step in which the loop's body runs on `line`
BodyStep == sc_pc = "body" /\ sc_pc' = "next"

\* the block-comment pairs and single-line markers of the scanned language
PairsOf(config) == DictGet(config, "multi_line_comment", <<>>)
MarkersOf(config) == Range(SingleLineMarkers(config))

\* the text at 0-based position pos and after holds a non-whitespace character
TextFrom(l, pos) == \E i \in (pos + 1)..Len(l) : l[i] \notin Whitespace

\* 0-based position of the first non-whitespace character of a non-blank line
FirstText(l) == SetMin({i \in 0..(Len(l) - 1) : l[i + 1] \notin Whitespace})

\* the left-trimmed line begins with one of the single-line markers
BeginsWithMarker(l, config) ==
  /\ ~IsBlank(l)
  /\ \E m \in MarkersOf(config) : m # <<>> /\ OccursAt(l, m, FirstText(l))

\* 0-based positions at which marker m occurs in l
Occurrences(l, m) == {i \in 0..(Len(l) - Len(m)) : OccursAt(l, m, i)}

\* pair p's start marker occurs in l and p's end marker occurs at position
\* `from` after the first start marker's position, or later
EndAfterStart(l, p, from) ==
  /\ Occurrences(l, p[1]) # {}
  /\ \E e \in Occurrences(l, p[2]) : e >= SetMin(Occurrences(l, p[1])) + from

\* the first such end marker's position
FirstEndAfterStart(l, p, from) ==
  SetMin({e \in Occurrences(l, p[2]) : e >= SetMin(Occurrences(l, p[1])) + from})

\* one more comment line; one more code line exactly if codeToo
CountsAsComment(codeToo) ==
  /\ comment_lines' = comment_lines + 1
  /\ code_lines' = IF codeToo THEN code_lines + 1 ELSE code_lines
  /\ empty_lines' = empty_lines

\* C1 as the spec states it: outside a block comment, a line holding a pair's
\* start marker and that pair's end marker at or after the start marker's
\* position is counted as one comment line, as one code line too exactly if
\* non-whitespace text follows the end marker, and leaves the scanner outside
\* block-comment state.
C1_SameLineAtOrAfterStart ==
  [][(/\ BodyStep
      /\ ~in_block_comment
      /\ ~IsBlank(line))
     => \A k \in DOMAIN PairsOf(language_config) :
          LET p == PairsOf(language_config)[k]
          IN  EndAfterStart(line, p, 0)
              => /\ CountsAsComment(
                      TextFrom(line, FirstEndAfterStart(line, p, 0) + Len(p[2])))
                 /\ ~in_block_comment']_vars

\* pair k decides the line as a same-line comment: its end marker occurs at or
\* after the end of the first occurrence of its start marker, and no earlier
\* pair's start marker occurs in the line without that pair's end marker
\* occurring in the line (an earlier pair both of whose markers occur, the end
\* marker not after the start marker, is passed over)
DecidesSameLine(l, pairs, k) ==
  /\ EndAfterStart(l, pairs[k], Len(pairs[k][1]))
  /\ \A j \in 1..(k - 1) :
       /\ ~EndAfterStart(l, pairs[j], Len(pairs[j][1]))
       /\ Occurrences(l, pairs[j][1]) # {} => Occurrences(l, pairs[j][2]) # {}

\* C1, amended: outside a block comment, when the first pair in configured
\* order whose end marker occurs at or after the END of the first occurrence of
\* its start marker is not preceded by a pair that opens a block on the line,
\* the line is counted as exactly one comment line, as exactly one code line
\* too if and only if non-whitespace text follows that end marker, and the
\* scanner stays outside block-comment state.
C1_SameLineBlockComment ==
  [][(/\ BodyStep
      /\ ~in_block_comment
      /\ ~IsBlank(line))
     => \A k \in DOMAIN PairsOf(language_config) :
          LET pairs == PairsOf(language_config)
          IN  DecidesSameLine(line, pairs, k)
              => /\ CountsAsComment(
                      TextFrom(line,
                               FirstEndAfterStart(line, pairs[k], Len(pairs[k][1]))
                                 + Len(pairs[k][2])))
                 /\ ~in_block_comment'
                 /\ block_comment_end' = None]_vars

\* the C-like rules: `//` with the pair /* */
CLike ==
  [ keys |-> {"single_line_comment", "multi_line_comment"},
    single_line_comment |-> PyStr(<<"/", "/">>),
    multi_line_comment |-> << << <<"/", "*">>, <<"*", "/">> >> >> ]

\* C1's case: the C line `/**/x` has been counted as comment and as code
C1_Witness ==
  /\ sc_pc = "next"
  /\ language_config = CLike
  /\ line = <<"/", "*", "*", "/", "x", "\n">>
  /\ total_lines = 1 /\ comment_lines = 1 /\ code_lines = 1
  /\ ~in_block_comment

\* pair p opens a block comment on l: its start marker occurs and its end
\* marker does not follow the first start marker on the line
OpensBlock(l, p) ==
  /\ Occurrences(l, p[1]) # {}
  /\ ~EndAfterStart(l, p, Len(p[1]))

\* C2: every non-blank line from the line that opens a block comment (a start
\* marker with no end marker following it on that line) to the line that
\* closes it is counted as a comment line and not as a code line, for every
\* language and every pair, pairs of two equal markers included.
C2_MultiLineBlockComment ==
  [][(/\ BodyStep
      /\ ~IsBlank(line)
      /\ \/ in_block_comment
         \/ \E k \in DOMAIN PairsOf(language_config) :
              OpensBlock(line, PairsOf(language_config)[k]))
     => CountsAsComment(FALSE)]_vars

\* C3: outside a block comment, a line whose left-trimmed text begins with a
\* single-line marker adds exactly 1 to comment_lines and nothing to
\* code_lines, whatever follows the marker and whatever whitespace leads.
C3_SingleLineComment ==
  [][(/\ BodyStep
      /\ ~in_block_comment
      /\ BeginsWithMarker(line, language_config))
     => CountsAsComment(FALSE)]_vars

\* C4: a line that is empty after stripping adds exactly 1 to empty_lines and
\* changes neither comment_lines, code_lines nor the block-comment state,
\* inside a block comment as outside; and a file with no non-blank line ends
\* with code_lines = comment_lines = 0 and empty_lines = total_lines.
C4_BlankLines ==
  /\ [][(BodyStep /\ IsBlank(line))
        => /\ empty_lines' = empty_lines + 1
           /\ UNCHANGED <<comment_lines, code_lines, in_block_comment,
                          block_comment_start, block_comment_end>>]_vars
  /\ [](sc_pc = "done" /\ nonblank_lines = 0
        => /\ code_lines = 0
           /\ comment_lines = 0
           /\ empty_lines = total_lines)

\* C4's case: a blank line scanned while a block comment is open
C4_Witness ==
  /\ sc_pc = "next"
  /\ IsBlank(line)
  /\ in_block_comment
  /\ total_lines = 2 /\ empty_lines = 1 /\ comment_lines = 1 /\ code_lines = 0

\* C5: outside a block comment, a non-blank line that holds no block-comment
\* start marker and whose trimmed text does not begin with a single-line
\* marker is counted as exactly one code line and no comment line; a marker in
\* mid-line and a language without markers are cases of it.
C5_CodeLines ==
  [][(/\ BodyStep
      /\ ~in_block_comment
      /\ ~IsBlank(line)
      /\ \A k \in DOMAIN PairsOf(language_config) :
           Occurrences(line, PairsOf(language_config)[k][1]) = {}
      /\ ~BeginsWithMarker(line, language_config))
     => /\ code_lines' = code_lines + 1
        /\ comment_lines' = comment_lines
        /\ empty_lines' = empty_lines
        /\ ~in_block_comment']_vars

\* C5's case: the C line `x//`, its marker in mid-line, has been counted as code
C5_Witness ==
  /\ sc_pc = "next"
  /\ language_config = CLike
  /\ line = <<"x", "/", "/", "\n">>
  /\ code_lines = 1 /\ comment_lines = 0 /\ empty_lines = 0

\* C6: every line adds 1 to at least one of empty_lines, comment_lines and
\* code_lines and at most 1 to each; a line counted twice is a same-line block
\* comment followed by code; so total_lines <= the sum of the three, the excess
\* is the number of lines counted twice, and empty_lines + comment_lines and
\* empty_lines + code_lines are at most total_lines.
C6_CounterInvariant ==
  /\ [][BodyStep
        => LET de == empty_lines' - empty_lines
               dc == comment_lines' - comment_lines
               dk == code_lines' - code_lines
           IN  /\ {de, dc, dk} \subseteq {0, 1}
               /\ de + dc + dk >= 1
               /\ de = 1 => dc = 0 /\ dk = 0
               /\ dc = 1 /\ dk = 1
                  => /\ ~in_block_comment
                     /\ \E k \in DOMAIN PairsOf(language_config) :
                          LET pairs == PairsOf(language_config)
                          IN  /\ DecidesSameLine(line, pairs, k)
                              /\ TextFrom(line,
                                   FirstEndAfterStart(line, pairs[k],
                                                      Len(pairs[k][1]))
                                     + Len(pairs[k][2]))]_vars
  /\ [](sc_pc \in {"next", "loop", "done"}
        => /\ total_lines = empty_lines + comment_lines + code_lines - both_lines
           /\ total_lines <= empty_lines + comment_lines + code_lines
           /\ empty_lines + comment_lines <= total_lines
           /\ empty_lines + code_lines <= total_lines)

\* C6's case: a returned file one of whose two lines was counted twice
C6_Witness ==
  /\ sc_pc = "done"
  /\ total_lines = 2
  /\ both_lines = 1
  /\ empty_lines + comment_lines + code_lines = 3

(***************************************************************************)
(* Claim C7: the classifier, under SpecClassify.                           *)
(***************************************************************************)
\* the entries of the table whose extensions list contains ext
MatchingEntries(ext, table) ==
  {k \in DOMAIN table :
     /\ "extensions" \in table[k].value.keys
     /\ \E n \in DOMAIN table[k].value.extensions :
          table[k].value.extensions[n] = ext}

\* s and t are the same text up to the case of their letters
SameUpToCase(s, t) ==
  /\ Len(s) = Len(t)
  /\ \A n \in DOMAIN s : LowerChar(s[n]) = LowerChar(t[n])

\* the paths m.<letters>, in every case of the letters
CaseProbes == {<<"m">> \o t : t \in PathTails}

\* C7: get_language_from_extension returns the first language, in the
\* insertion order of the table, whose extensions list contains the
\* lower-cased extension of the path, and "Unknown" when there is none; so
\* a path whose extension differs from that of the classified path only in
\* the case of its letters is classified as the same language, and of two
\* languages that share the extension the one registered first is returned.
C7_FirstMatchingLanguage ==
  file_path # None =>
    LET ext     == Lower(Suffix(file_path))
        matches == MatchingEntries(ext, language_configs)
    IN  /\ matches = {} => language = "Unknown"
        /\ matches # {} =>
             /\ language = language_configs[SetMin(matches)].key
             /\ \A k \in matches :
                  language_configs[k].key # language =>
                    DictIndex(language_configs, language) < k
        /\ \A q \in CaseProbes :
             SameUpToCase(Suffix(q), Suffix(file_path)) =>
               GetLanguageFromExtension(q, language_configs) = language

\* a path with an extension in capitals that two languages of the table
\* share has been classified as the one registered first
C7_Witness ==
  /\ file_path = <<"d", "/", "m", ".", "P", "Y">>
  /\ Cardinality(MatchingEntries(<<".", "p", "y">>, language_configs)) = 2
  /\ language = "Python"

(***************************************************************************)
(* Claim C8: the walker, under SpecCollect.                                *)
(***************************************************************************)
\* the directory at path is visited by a walk from root: it is root, or it
\* lies below root and none of its components below root starts with a dot
VisitedFrom(root, path) ==
  \/ path = root
  \/ /\ StartsWith(path, root \o <<"/">>)
     /\ LET below == SliceFrom(path, Len(root) + 1)
        IN  \A n \in DOMAIN below :
              (n = 1 \/ below[n - 1] = "/") => below[n] # "."

\* the regular files of the directories visited from root, as paths
VisitedFiles(root) ==
  UNION {{Join(Directories[d].path, Directories[d].filenames[n]) :
            n \in DOMAIN Directories[d].filenames} :
         d \in {e \in DOMAIN Directories :
                  VisitedFrom(root, Directories[e].path)}}

\* (a): no exclude pattern that is non-empty and not the wildcard is a
\* substring of the path
NotExcluded(path) ==
  \A k \in DOMAIN exclude_patterns :
    exclude_patterns[k] \in {<<>>, <<"*">>}
      \/ ~Contains(path, exclude_patterns[k])

\* (b): the include list holds the wildcard, or a non-empty include pattern
\* is a substring of the path
Included(path) ==
  \/ \E k \in DOMAIN include_patterns : include_patterns[k] = <<"*">>
  \/ \E k \in DOMAIN include_patterns :
       include_patterns[k] # <<>> /\ Contains(path, include_patterns[k])

\* C8: collect_files yields a regular file of a visited directory if and
\* only if (a) no exclude pattern that is non-empty and not '*' is a substring
\* of its path and (b) the include list contains '*' or a non-empty include
\* pattern is a substring of its path, and yields it once; so an excluded
\* file is not yielded whatever the include list, an empty include list
\* yields no file, and include ['*'] with exclude ['test'] yields exactly the
\* files whose path does not contain 'test'.
C8_CollectFilter ==
  LET visited == VisitedFiles(current_directory)
  IN  /\ cf_pc \in {"walk", "done"} =>
           /\ Range(files) \subseteq
                {f \in visited : NotExcluded(f) /\ Included(f)}
           /\ \A m, n \in DOMAIN files : files[m] = files[n] => m = n
      /\ cf_pc = "done" =>
           /\ Range(files) = {f \in visited : NotExcluded(f) /\ Included(f)}
           /\ \A f \in visited : ~NotExcluded(f) => f \notin Range(files)
           /\ include_patterns = <<>> => files = <<>>
           /\ (/\ include_patterns = << <<"*">> >>
               /\ exclude_patterns = << <<"t", "e", "s", "t">> >>) =>
                Range(files) =
                  {f \in visited : ~Contains(f, <<"t", "e", "s", "t">>)}

\* the walk of p with include ['*'] and exclude ['test'] has returned: it
\* yields files, and leaves out p/test_a.PY and p/src/test/t.py
C8_Witness ==
  /\ cf_pc = "done"
  /\ current_directory = Dir_p
  /\ include_patterns = << <<"*">> >>
  /\ exclude_patterns = << <<"t", "e", "s", "t">> >>
  /\ Len(files) = 5
  /\ <<"p", "/", "t", "e", "s", "t", "_", "a", ".", "P", "Y">> \notin Range(files)
  /\ <<"p", "/", "a", ".", "p", "y">> \in Range(files)

(***************************************************************************)
(* Claim C23: the hidden directories, under SpecCollect.                   *)
(***************************************************************************)
\* the directory a path lies in: the path up to its last slash
DirectoryOf(path) == SubSeq(path, 1, RFind(path, "/"))

RECURSIVE SumOver(_, _)
SumOver(records, counter) ==
  IF records = <<>>
  THEN 0
  ELSE Head(records)[counter] + SumOver(Tail(records), counter)

\* thread w is not between the append of a file's record and the last of the
\* four additions of its counters
BetweenFiles(w) ==
  worker[w].pc \notin {"add_total", "add_code", "add_comment", "add_empty"}

\* C9: with a single worker thread since the scan was started, whenever the
\* worker has finished aggregating a file (it is not in the middle of adding
\* one), for every language in results each of total_lines, code_lines,
\* comment_lines and empty_lines equals the sum of that counter over the
\* records of the language's files list.
C9_AggregationInvariant ==
  (Cardinality(scan_workers) <= 1 /\ \A w \in Workers : BetweenFiles(w)) =>
    \A n \in DOMAIN results :
      \A counter \in {"total_lines", "code_lines", "comment_lines",
                      "empty_lines"} :
        results[n].value[counter] = SumOver(results[n].value.files, counter)

\* a scan has finished with two languages in results, one of them with
\* several files, comment lines and code lines
C9_Witness ==
  /\ \E w \in Workers : worker[w].pc = "done"
  /\ Cardinality(scan_workers) = 1
  /\ Len(results) >= 2
  /\ \E n \in DOMAIN results :
       /\ Len(results[n].value.files) >= 2
       /\ results[n].value.comment_lines >= 2
       /\ results[n].value.code_lines >= 2

\* C10: while 'Unknown' is not among the selected languages, results has no
\* 'Unknown' entry and no aggregate holds the record of a file whose
\* extension matches no language of the rule table.
C10_UnknownExcluded ==
  (selected_languages # None /\ "Unknown" \notin Range(selected_languages)) =>
    /\ ~DictHas(results, "Unknown")
    /\ \A n \in DOMAIN results :
         \A m \in DOMAIN results[n].value.files :
           GetLanguageFromExtension(results[n].value.files[m].file_path,
                                    language_configs) # "Unknown"

(***************************************************************************)
(* The comparator and the snapshots.                                       *)
(***************************************************************************)
\* the number a text of digits stands for
RECURSIVE ParseDecimal(_)
ParseDecimal(text) ==
  IF text = <<>>
  THEN 0
  ELSE 10 * ParseDecimal(SubSeq(text, 1, Len(text) - 1))
       + (CHOOSE d \in 0..9 : DecimalDigits[d + 1] = text[Len(text)])

\* the number a text of a sign and digits stands for
ParseSigned(text) ==
  IF Head(text) = "-"
  THEN 0 - ParseDecimal(Tail(text))
  ELSE ParseDecimal(Tail(text))

\* compare_results ran last and perform_comparison returned
Compared == last_op.op = "compare" /\ last_op.dialog = "none"

\* the document chosen in the n-th dialog of the last comparison
ComparedData(n) == LoadDocument(disk[last_op.paths[n]].json)

\* the deltas a comparison text shows, as numbers
OverallDeltas(text) ==
  << ParseSigned(text.overall[1].files.diff),
     ParseSigned(text.overall[1].total_lines.diff) >>
LanguageDeltas(text) ==
  [n \in DOMAIN text.languages |->
     [ language |-> text.languages[n].language,
       files |-> ParseSigned(text.languages[n].files.diff),
       total_lines |-> ParseSigned(text.languages[n].total_lines.diff),
       code_lines |-> ParseSigned(text.languages[n].code_lines.diff) ]]

\* C11: every delta of a comparison of A with B (overall files, overall
\* total lines, and per language files, total lines and code lines) is the
\* negation of the same delta of the comparison of B with A, and a
\* comparison of a document with itself shows only zero deltas
C11_Antisymmetry ==
  Compared =>
    LET swapped == PerformComparison(ComparedData(2), ComparedData(1))
        forth == LanguageDeltas(compare_text)
        back == LanguageDeltas(swapped.text)
    IN  /\ ~swapped.raised
        /\ \A k \in 1..2 :
             OverallDeltas(compare_text)[k]
               = 0 - OverallDeltas(swapped.text)[k]
        /\ DOMAIN forth = DOMAIN back
        /\ \A n \in DOMAIN forth :
             /\ forth[n].language = back[n].language
             /\ forth[n].files = 0 - back[n].files
             /\ forth[n].total_lines = 0 - back[n].total_lines
             /\ forth[n].code_lines = 0 - back[n].code_lines
        /\ ComparedData(1) = ComparedData(2) =>
             /\ OverallDeltas(compare_text) = <<0, 0>>
             /\ \A n \in DOMAIN forth :
                  /\ forth[n].files = 0
                  /\ forth[n].total_lines = 0
                  /\ forth[n].code_lines = 0

\* two different documents are compared and a delta is not zero
C11_Witness ==
  /\ Compared
  /\ ComparedData(1) # ComparedData(2)
  /\ OverallDeltas(compare_text)[1] < 0
  /\ \E n \in DOMAIN compare_text.languages :
       LanguageDeltas(compare_text)[n].code_lines > 0

\* the languages of the document chosen in the n-th dialog
ComparedLanguages(n) == Range(Keys(ResultsOf(ComparedData(n))))

\* what the document chosen in the n-th dialog counts for a language: the
\* number of its files, its total lines and its code lines, 0 for each when
\* the document does not have the language
ComparedCounts(n, language_) ==
  LET results_ == ResultsOf(ComparedData(n))
  IN  IF DictHas(results_, language_)
      THEN LET data == DictValue(results_, language_)
           IN  [ files |-> Len(data.files),
                 total_lines |-> data.total_lines,
                 code_lines |-> IF "code_lines" \in DOMAIN data
                                THEN data.code_lines ELSE 0 ]
      ELSE [files |-> 0, total_lines |-> 0, code_lines |-> 0]

\* the text "a → b (±d)" shows a, b and b - a
Shows(delta, first, second) ==
  /\ ParseDecimal(delta.first) = first
  /\ ParseDecimal(delta.second) = second
  /\ ParseSigned(delta.diff) = second - first

\* the sum of f[x] over a set
RECURSIVE SetSum(_, _)
SetSum(f, set) ==
  IF set = {}
  THEN 0
  ELSE LET x == CHOOSE x \in set : TRUE
       IN  f[x] + SetSum(f, set \ {x})

\* C12: a comparison shows one entry per language for exactly the union of
\* the languages of the two documents, in ascending order of the names; the
\* deltas of an entry are the second document's count minus the first's,
\* a language a document does not have counting as 0 files, 0 total lines
\* and 0 code lines; the overall deltas are the second document's totals
\* minus the first's
C12_Coverage ==
  Compared =>
    LET entries == compare_text.languages
        union == ComparedLanguages(1) \cup ComparedLanguages(2)
        totals(n, field) ==
          SetSum([l \in union |-> ComparedCounts(n, l)[field]], union)
    IN  /\ {entries[n].language : n \in DOMAIN entries} = union
        /\ Len(entries) = Cardinality(union)
        /\ \A n \in 1..(Len(entries) - 1) :
             StrLess(NameChars[entries[n].language],
                     NameChars[entries[n + 1].language])
        /\ \A n \in DOMAIN entries :
             LET first == ComparedCounts(1, entries[n].language)
                 second == ComparedCounts(2, entries[n].language)
             IN  /\ Shows(entries[n].files, first.files, second.files)
                 /\ Shows(entries[n].total_lines,
                          first.total_lines, second.total_lines)
                 /\ Shows(entries[n].code_lines,
                          first.code_lines, second.code_lines)
        /\ Shows(compare_text.overall[1].files,
                 totals(1, "files"), totals(2, "files"))
        /\ Shows(compare_text.overall[1].total_lines,
                 totals(1, "total_lines"), totals(2, "total_lines"))

\* the two documents share a language and each has one the other lacks, and a
\* delta is negative
C12_Witness ==
  /\ Compared
  /\ ComparedLanguages(1) \cap ComparedLanguages(2) # {}
  /\ ComparedLanguages(1) \ ComparedLanguages(2) # {}
  /\ ComparedLanguages(2) \ ComparedLanguages(1) # {}
  /\ \E n \in DOMAIN compare_text.languages :
       ParseSigned(compare_text.languages[n].total_lines.diff) < 0

\* import_results ran last on a file that export_results wrote before
ImportedExport(path) ==
  /\ last_op.op = "import"
  /\ last_op.paths = <<path>>
  /\ exported[path] # <<>>

\* C13: after export_results wrote the results held to a file and
\* import_results read that file, the results held have the same languages,
\* each with the same four counters and the same file records, in the same
\* order, as the results that were exported
C13_RoundTrip ==
  \A path \in SnapshotPaths :
    ImportedExport(path) =>
      /\ Keys(results) = Keys(exported[path][1])
      /\ \A n \in DOMAIN results :
           results[n].value = exported[path][1][n].value

\* an export with two files of one language is imported after other results
\* had replaced it
C13_Witness ==
  \E path \in SnapshotPaths :
    /\ ImportedExport(path)
    /\ last_op.dialog = "showinfo"
    /\ \E n \in DOMAIN results : Len(results[n].value.files) >= 2
    /\ \E other \in SnapshotPaths \ {path} :
         /\ disk[other].valid
         /\ ResultsOf(LoadDocument(disk[other].json)) # results

(***************************************************************************)
(* Claims C25 and C26: export and import, under SpecSnapshot.              *)
(***************************************************************************)
\* C25: whenever results is not empty, export_results with a path chosen
\* writes to it a document that holds those results, also after an import
\* in a session in which no scan was started
C25_ExportAvailability ==
  [][ (last_op'.op = "export" /\ results # <<>>) =>
        /\ last_op'.dialog = "showinfo"
        /\ LET written == disk'[last_op'.paths[1]]
           IN  /\ ~LoadRaises(written)
               /\ ResultsOf(LoadDocument(written.json)) = results ]_vars

\* C26: whenever import_results reports a failure, for a file that cannot
\* be read, for a text that is not JSON, or for a document with an aggregate
\* that lacks the files list or a counter, results is afterwards what it was
\* before
C26_FailedImport ==
  [][ (last_op'.op = "import" /\ last_op'.dialog = "showerror") =>
        results' = results ]_vars

(***************************************************************************)
(* Claims C16 to C18: the block comments of the line scanner, under        *)
(* SpecScan.                                                               *)
(***************************************************************************)
\* pair k is the first pair in configured order whose start marker occurs in l
FirstPairIn(l, pairs, k) ==
  /\ Occurrences(l, pairs[k][1]) # {}
  /\ \A j \in 1..(k - 1) : Occurrences(l, pairs[j][1]) = {}

\* C16: outside a block comment, a line that holds a pair's start marker and
\* no occurrence of that pair's end marker at or after the start marker puts
\* the scanner in block-comment state with that pair's end marker as the one
\* that closes the block, and is counted as exactly one comment line and not
\* as code; no further pair is checked for the line.
C16_OpeningBlock ==
  [][(/\ BodyStep
      /\ ~in_block_comment
      /\ ~IsBlank(line))
     => \A k \in DOMAIN PairsOf(language_config) :
          LET pairs == PairsOf(language_config)
          IN  (FirstPairIn(line, pairs, k) /\ ~EndAfterStart(line, pairs[k], 0))
              => /\ CountsAsComment(FALSE)
                 /\ in_block_comment'
                 /\ block_comment_start' = pairs[k][1]
                 /\ block_comment_end' = pairs[k][2]]_vars

\* C17: inside a block comment every non-blank line is counted as exactly
\* one comment line and never as code, whatever follows the end marker; the
\* scanner leaves block-comment state, both fields cleared, exactly if the
\* end marker of the pair that opened the block occurs in the line, and
\* otherwise its state is unchanged; the end marker of another pair does not
\* close the block.
C17_InsideBlock ==
  /\ [][(/\ BodyStep
         /\ in_block_comment
         /\ ~IsBlank(line))
        => /\ CountsAsComment(FALSE)
           /\ IF Occurrences(line, block_comment_end) # {}
              THEN /\ ~in_block_comment'
                   /\ block_comment_start' = None
                   /\ block_comment_end' = None
              ELSE UNCHANGED <<in_block_comment, block_comment_start,
                               block_comment_end>>]_vars
  /\ [](IF in_block_comment
        THEN \E k \in DOMAIN PairsOf(language_config) :
               /\ block_comment_start = PairsOf(language_config)[k][1]
               /\ block_comment_end = PairsOf(language_config)[k][2]
        ELSE block_comment_start = None /\ block_comment_end = None)

\* a block opened by the first pair of a language with two pairs has stayed
\* open over a line that holds the end marker of the second pair and text
C17_Witness ==
  /\ sc_pc = "next"
  /\ total_lines = 2
  /\ comment_lines = 2 /\ code_lines = 0 /\ empty_lines = 0
  /\ in_block_comment
  /\ Len(PairsOf(language_config)) = 2
  /\ block_comment_end = PairsOf(language_config)[1][2]
  /\ block_comment_end # PairsOf(language_config)[2][2]
  /\ Occurrences(line, PairsOf(language_config)[2][2]) # {}
  /\ Occurrences(line, <<"x">>) # {}

\* the language's dict with one block-comment pair only
WithPair(config, pair) == [config EXCEPT !.multi_line_comment = <<pair>>]

\* C18: outside a block comment, the first pair in configured order whose
\* start marker occurs in the line decides alone how the line is counted: the
\* line is counted, and the scanner left, as if that pair were the only pair
\* of the language; no later pair is consulted.
C18_PairOrdering ==
  [][(/\ BodyStep
      /\ ~in_block_comment
      /\ ~IsBlank(line))
     => \A k \in DOMAIN PairsOf(language_config) :
          LET pairs == PairsOf(language_config)
              alone == ScanLine(ScanState, line,
                                WithPair(language_config, pairs[k]))
          IN  FirstPairIn(line, pairs, k)
              => /\ comment_lines' = alone.comment_lines
                 /\ code_lines' = alone.code_lines
                 /\ empty_lines' = alone.empty_lines
                 /\ in_block_comment' = alone.in_block_comment
                 /\ block_comment_start' = alone.block_comment_start
                 /\ block_comment_end' = alone.block_comment_end]_vars

\* non-whitespace text stands before the first occurrence of pair p's start
\* marker in l
TextBefore(l, p) ==
  /\ Occurrences(l, p[1]) # {}
  /\ \E i \in 1..SetMin(Occurrences(l, p[1])) : l[i] \notin Whitespace

\* no non-whitespace text stands after the end marker that closes, on l, the
\* comment pair p's start marker opens, if there is one
NoTextAfter(l, p) ==
  EndAfterStart(l, p, Len(p[1])) =>
    ~TextFrom(l, FirstEndAfterStart(l, p, Len(p[1])) + Len(p[2]))

\* C28: outside a block comment, a line with non-whitespace text before a
\* block-comment start marker and none after the end marker that closes the
\* comment, such as `int x; /* c */` and `int x; /* open`, is counted as
\* exactly one comment line and not as a code line.
C28_CodeBeforeBlock ==
  [][(/\ BodyStep
      /\ ~in_block_comment
      /\ ~IsBlank(line))
     => \A k \in DOMAIN PairsOf(language_config) :
          LET pairs == PairsOf(language_config)
          IN  (/\ FirstPairIn(line, pairs, k)
               /\ TextBefore(line, pairs[k])
               /\ NoTextAfter(line, pairs[k]))
              => CountsAsComment(FALSE)]_vars

(***************************************************************************)
(* The handlers of the main loop and the threads.                          *)
(***************************************************************************)
\* the statements of the loop's body, after the language of the file is known
InBody == {"analyze", "create", "append", "add_total", "add_code",
           "add_comment", "add_empty", "progress"}

\* what a dict of results holds stays in the other: each language, its files
\* at the head of the files, no counter smaller
Remain(before, after) ==
  \A n \in DOMAIN before :
    /\ DictHas(after, before[n].key)
    /\ LET old == before[n].value
           new == DictValue(after, before[n].key)
       IN  /\ Len(new.files) >= Len(old.files)
           /\ SubSeq(new.files, 1, Len(old.files)) = old.files
           /\ new.total_lines >= old.total_lines
           /\ new.code_lines >= old.code_lines
           /\ new.comment_lines >= old.comment_lines
           /\ new.empty_lines >= old.empty_lines

\* C14: once stop_analysis has run during a scan, the thread takes no
\* further file from its list (the file it is at may be completed), and the
\* results accumulated before the stop remain
C14_Cancellation ==
  [][ (stopped /\ stopped') =>
        /\ \A w \in DOMAIN worker :
             ~(worker[w].pc = "for" /\ worker'[w].pc = "analyze")
        /\ Remain(results, results') ]_vars

\* the most recently started thread
LatestThread ==
  CHOOSE w \in DOMAIN started :
    /\ started[w] # <<>>
    /\ \A v \in DOMAIN started : v > w => started[v] = <<>>

\* the file records of results, of all languages
RECURSIVE AllFiles(_)
AllFiles(results_) ==
  IF results_ = <<>>
  THEN <<>>
  ELSE Head(results_).value.files \o AllFiles(Tail(results_))

\* C19: at most one thread of analyze_directory runs at any time, so that a
\* start_analysis during a scan never leaves two threads adding to results;
\* results holds each file at most once, and only files of the most
\* recently started scan
C19_SingleWorker ==
  /\ Cardinality({w \in DOMAIN worker : Running(w)}) <= 1
  /\ LET records == AllFiles(results)
     IN  /\ \A m, n \in DOMAIN records :
               records[m].file_path = records[n].file_path => m = n
         /\ \A n \in DOMAIN records :
               LET scan == started[LatestThread][1]
               IN  records[n].file_path \in
                     Range(CollectFiles(scan.current_directory,
                                        scan.include_patterns,
                                        scan.exclude_patterns))

\* C20: every file of a scan is collected, classified and scanned with the
\* rule table and the patterns as they were when start_analysis started the
\* scan, whatever reload_config or the saving of a custom language does
\* while the scan runs
C20_ConfigurationSnapshot ==
  \A w \in DOMAIN worker :
    started[w] # <<>> =>
      LET scan == started[w][1]
          config == DictValueOr(scan.language_configs, worker[w].language,
                                EmptyDict)
      IN  /\ worker[w].pc # "collect" =>
               worker[w].files = CollectFiles(scan.current_directory,
                                              scan.include_patterns,
                                              scan.exclude_patterns)
          /\ worker[w].pc \in InBody =>
               worker[w].language
                 = GetLanguageFromExtension(FilePath(w), scan.language_configs)
          /\ worker[w].pc \in InBody \ {"analyze"} =>
               worker[w].result = AnalyzeFile(FilePath(w), config)

\* the thread is at a file that cannot be opened
AtUnreadable(w) ==
  /\ worker[w].pc \in InBody
  /\ ~FileEntry(FilePath(w)).readable

\* C15: for a file that cannot be opened analyze_file returns None and
\* raises nothing: the file is appended to no aggregate and no counter
\* changes, no error is reported, and the thread goes on to the next file of
\* its list
C15_UnreadableFile ==
  [][ /\ \A w \in DOMAIN worker :
           (AtUnreadable(w) /\ worker'[w] # worker[w]) =>
             /\ results' = results
             /\ after_queue' = after_queue \/ worker[w].pc = "progress"
             /\ worker'[w].files = worker[w].files
             /\ \/ /\ worker[w].pc = "analyze"
                   /\ worker'[w].pc = "progress"
                   /\ worker'[w].result = <<>>
                   /\ worker'[w].i = worker[w].i
                \/ /\ worker[w].pc = "progress"
                   /\ worker'[w].pc = "for"
                   /\ worker'[w].i = worker[w].i + 1
      /\ \A n \in DOMAIN AllFiles(results') :
           FileEntry(AllFiles(results')[n].file_path).readable ]_vars

\* the thread has passed a file that cannot be opened and adds the next file
\* to results
C15_Witness ==
  \E w \in DOMAIN worker :
    /\ worker[w].pc = "append"
    /\ worker[w].i >= 1
    /\ ~FileEntry(worker[w].files[worker[w].i]).readable
    /\ results # <<>>

\* C21: from the start of a scan until it finishes, results only grows: no
\* aggregate disappears, no files list gets shorter and no counter
\* decreases, whatever handler the main loop runs meanwhile
C21_MonotonicGrowth ==
  [][ (\E w \in DOMAIN worker : Running(w)) => Remain(results, results') ]_vars

\* the place of a path in a list of paths, 0 if it is not in it
PlaceIn(paths, path) ==
  IF \E n \in DOMAIN paths : paths[n] = path
  THEN CHOOSE n \in DOMAIN paths :
         paths[n] = path /\ \A m \in 1..(n - 1) : paths[m] # path
  ELSE 0

\* C22: during and after a scan every language of results has a files list
\* that is not empty, but for the language a thread has just created the
\* aggregate of and is about to append the file to; and the files of each
\* language stand in the order in which collect_files found them
C22_LazyAggregates ==
  \A n \in DOMAIN results :
    LET records == results[n].value.files
        \* what collect_files returned to the thread of the scan
        found == worker[LatestThread].files
    IN  /\ records = <<>> =>
             \E w \in DOMAIN worker :
               worker[w].pc = "append" /\ worker[w].language = results[n].key
        /\ \A a, b \in DOMAIN records :
             a < b =>
               /\ 0 < PlaceIn(found, records[a].file_path)
               /\ PlaceIn(found, records[a].file_path)
                    < PlaceIn(found, records[b].file_path)

(***************************************************************************)
(* Claim C24: update_results_ui during a scan, under SpecProgress.         *)
(***************************************************************************)
\* a row shows the length of the language's files list and the sums over
\* it as they were after some number of its files
ShowsOnePoint(row) ==
  LET records == DictValue(results, row.language).files
  IN  \E k \in 0..Len(records) :
        /\ row.files = k
        /\ \A counter \in {"total_lines", "code_lines", "comment_lines",
                           "empty_lines"} :
             row[counter] = SumOver(SubSeq(records, 1, k), counter)

\* C24: an update_results_ui that runs while a thread is scanning
\* completes without an exception, and each row it inserts shows a file
\* count and four totals that are the length of and the sums over the
\* language's files list at one point of the scan
C24_ConsistentProgress ==
  ui.scanning =>
    /\ ui.error = "none"
    /\ \A n \in DOMAIN tree : ShowsOnePoint(tree[n])

(***************************************************************************)
(* Claim C27: the built-in rule table, under SpecConfig.                   *)
(***************************************************************************)
\* C27: whatever the application does (a start without a configuration
\* file, load_custom_language_configs, reload_config, the adding of a
\* language), CodeAnalyzer.DEFAULT_LANGUAGES holds what the class statement
\* gave it, so that a later fallback to it gives the built-in table
C27_DefaultsImmutable == default_languages = DEFAULT_LANGUAGES
=============================================================================
